---- MODULE Spec2Model ----
(***************************************************************************)
(* ResuMatch AI backend as state machines:                                 *)
(*  - the analysis orchestrator AIAnalyzer                                 *)
(*    (backend/src/services/ai_service.py): input validation, truncation,  *)
(*    prompt selection, the retry loop around the external model call with *)
(*    its backoff, the classification of failures and the post-processing  *)
(*    of the reply;                                                        *)
(*  - the upload validation FileValidator.validate_upload                  *)
(*    (backend/src/validators/file_validator.py and the one of             *)
(*    backend/app.py);                                                     *)
(*  - the text extraction PDFProcessor.extract_text_from_pdf               *)
(*    (backend/src/services/pdf_service.py);                               *)
(*  - the request handlers /analyze-resume and /extract-text               *)
(*    (backend/src/routes/api_routes.py, backend/app.py);                  *)
(*  - the document compiler LaTeXService                                   *)
(*    (backend/src/services/latex_service.py).                             *)
(***************************************************************************)
EXTENDS Integers, Sequences, FiniteSets, TLC

VARIABLES
    entry,        \* the method the caller invokes: "analyze_resume" or "_create_prompt"
    args,         \* the arguments of the invocation
    pc,           \* "idle", "start", "attempting" (external call in flight), "backoff", "done"
    max_retries,  \* the local max_retries after the default is resolved
    attempt,      \* the loop index of `for attempt in range(max_retries)`
    prompt,       \* the prompt built by _create_prompt
    response,     \* the outcome of the latest external call
    error_msg,    \* str(e) of the latest failed attempt
    wait_time,    \* the argument of the time.sleep in progress
    result,       \* the returned value
    calls,        \* number of model.generate_content invocations made
    sleeps,       \* the completed time.sleep durations, in order
    onlyTimeouts, \* history: every external call so far failed with a timeout-class error
    threads,      \* the invocations in flight on the shared analyzer, each with its locals
    app,             \* the application serving: "src" (the package under src/) or "app.py"
    call,            \* the operation invoked: a function or a route, "none" when idle
    file,            \* the uploaded file: NoFile, or its filename and content
    MAGIC_AVAILABLE, \* whether `import magic` succeeded when the validator was loaded
    mime_type,       \* what magic.from_buffer does on the content of the file
    rpc,             \* the position of the invocation
    validation,      \* what validate_upload returned
    pdf_reader,      \* what PyPDF2.PdfReader made of the content
    page_num,        \* the index of the next page of the extraction loop
    text,            \* the text accumulated by the extraction loop
    extraction,      \* what extract_text_from_pdf returned
    extract_calls,   \* number of page.extract_text invocations made
    readers,         \* number of PdfReader constructions: extractions attempted
    status,          \* the HTTP status of the response, 0 while there is none
    cursor,          \* the position of the stream of the uploaded file
    read_sizes,      \* the number of bytes each file.read() returned, in order
    exception,       \* str(e) of the exception raised in the route, "" when none
    response_body,   \* the JSON body of the response: its keys with their values
    latex_available, \* the result of the probe made when the service was constructed
    latex_code,      \* the source handed to compile_to_pdf or validate_latex
    lpc,             \* the position of the compilation
    temp_dirs,       \* the working directories that exist
    temp_dir,        \* the working directory of the call, 0 when none was made
    made_dirs,       \* number of working directories created so far
    runs,            \* number of invocations of the external compiler
    file_io,         \* number of files opened for writing or reading
    run_results,     \* what each subprocess.run of the compiler did, in order
    workdir,         \* what the runs left in the working directory, "" before
    compiled,        \* what compile_to_pdf or validate_latex returned
    resume,          \* the ResumeData handed to generate_latex_from_data
    template_name    \* the template handed to generate_latex_from_data

aiVars == <<entry, args, pc, max_retries, attempt, prompt, response, error_msg,
            wait_time, result, calls, sleeps, onlyTimeouts, threads>>

reqVars == <<app, call, file, MAGIC_AVAILABLE, mime_type, rpc, validation,
             pdf_reader, page_num, text, extraction, extract_calls, readers,
             status, cursor, read_sizes, exception, response_body>>

texVars == <<latex_available, latex_code, lpc, temp_dirs, temp_dir, made_dirs,
             runs, file_io, run_results, workdir, compiled, resume,
             template_name>>

vars == <<aiVars, reqVars, texVars>>

---------------------------------------------------------------------------
(* Bounds of the model and the program's constants. *)

\* largest max_retries argument a caller passes
MaxRetriesArg == 3
\* length of the run of whitespace put before or after the body of an input text
MaxPad == 1

MAX_RETRIES == 3
RESUME_TEXT_LIMIT == 4000
JOB_DESCRIPTION_LIMIT == 1500

---------------------------------------------------------------------------
(* Python str values whose content matters (error messages, replies) are  *)
(* TLA+ strings; the operators below are str.lower, str.strip and `in`,   *)
(* computed character by character.                                       *)

UpperCase == "ABCDEFGHIJKLMNOPQRSTUVWXYZ"
LowerCase == "abcdefghijklmnopqrstuvwxyz"
WhiteSpace == {" ", "\n", "\t", "\r"}

CharAt(s, i) == SubSeq(s, i, i)

LowerChar(c) ==
    IF \E i \in 1..Len(UpperCase) : CharAt(UpperCase, i) = c
    THEN CharAt(LowerCase, CHOOSE i \in 1..Len(UpperCase) : CharAt(UpperCase, i) = c)
    ELSE c

\* s.lower(): every character lowered, the two halves of s one after the other
RECURSIVE LowerOf(_)
LowerOf(s) ==
    IF s = "" THEN ""
    ELSE IF Len(s) = 1 THEN LowerChar(s)
    ELSE LowerOf(SubSeq(s, 1, Len(s) \div 2))
             \o LowerOf(SubSeq(s, Len(s) \div 2 + 1, Len(s)))

\* Python's `sub in s`
StrContains(sub, s) ==
    \E i \in 1..(Len(s) - Len(sub) + 1) : SubSeq(s, i, i + Len(sub) - 1) = sub

RECURSIVE StrLStrip(_)
StrLStrip(s) ==
    IF s # "" /\ CharAt(s, 1) \in WhiteSpace
    THEN StrLStrip(SubSeq(s, 2, Len(s)))
    ELSE s

RECURSIVE StrRStrip(_)
StrRStrip(s) ==
    IF s # "" /\ CharAt(s, Len(s)) \in WhiteSpace
    THEN StrRStrip(SubSeq(s, 1, Len(s) - 1))
    ELSE s

StrStrip(s) == StrRStrip(StrLStrip(s))

\* s.startswith(prefix)
StrStartsWith(s, prefix) ==
    Len(s) >= Len(prefix) /\ SubSeq(s, 1, Len(prefix)) = prefix

\* s * n
RECURSIVE StrTimes(_, _)
StrTimes(s, n) ==
    IF n <= 0 THEN ""
    ELSE IF n = 1 THEN s
    ELSE StrTimes(s, n \div 2) \o StrTimes(s, n - (n \div 2))

\* sub occurs in s at index i
OccursAt(sub, s, i) ==
    i >= 1 /\ i + Len(sub) - 1 <= Len(s) /\ SubSeq(s, i, i + Len(sub) - 1) = sub

\* the index of the first occurrence of sub in s among the indexes lo..hi,
\* 0 when there is none, found by bisection
RECURSIVE StrFindIn(_, _, _, _)
StrFindIn(sub, s, lo, hi) ==
    IF ~\E i \in lo..hi : OccursAt(sub, s, i) THEN 0
    ELSE IF lo = hi THEN lo
    ELSE LET mid == (lo + hi) \div 2 IN
         IF \E i \in lo..mid : OccursAt(sub, s, i)
         THEN StrFindIn(sub, s, lo, mid)
         ELSE StrFindIn(sub, s, mid + 1, hi)

\* s.find(sub, i - 1) + 1: the index of the first occurrence of sub in s from
\* index i on, 0 when there is none
StrFind(sub, s, i) == StrFindIn(sub, s, i, Len(s))

\* the index of the last occurrence of sub in s among the indexes lo..hi,
\* 0 when there is none, found by bisection
RECURSIVE StrRFindIn(_, _, _, _)
StrRFindIn(sub, s, lo, hi) ==
    IF ~\E i \in lo..hi : OccursAt(sub, s, i) THEN 0
    ELSE IF lo = hi THEN lo
    ELSE LET mid == (lo + hi) \div 2 IN
         IF \E i \in (mid + 1)..hi : OccursAt(sub, s, i)
         THEN StrRFindIn(sub, s, mid + 1, hi)
         ELSE StrRFindIn(sub, s, lo, mid)

\* s.rfind(c, 0, i) + 1: the index of the last occurrence of c in s up to
\* index i, 0 when there is none
StrRFind(c, s, i) == StrRFindIn(c, s, 1, i)

\* s.split(sep), sep one character: the sequence of the pieces, those before
\* the separator nearest the middle of s and those after it
RECURSIVE StrSplit(_, _)
StrSplit(s, sep) ==
    LET mid == (Len(s) + 1) \div 2
        after == StrFindIn(sep, s, mid, Len(s))
        i == IF after # 0 THEN after ELSE StrRFindIn(sep, s, 1, mid)
    IN IF i = 0 THEN << s >>
       ELSE StrSplit(SubSeq(s, 1, i - 1), sep)
                \o StrSplit(SubSeq(s, i + 1, Len(s)), sep)

\* sep.join(pieces)
RECURSIVE StrJoin(_, _)
StrJoin(sep, pieces) ==
    IF pieces = << >> THEN ""
    ELSE IF Len(pieces) = 1 THEN pieces[1]
    ELSE StrJoin(sep, SubSeq(pieces, 1, Len(pieces) \div 2))
             \o sep
             \o StrJoin(sep, SubSeq(pieces, Len(pieces) \div 2 + 1, Len(pieces)))

\* s.replace(old, ''): the occurrences of old, found from left to right
\* without overlap, are removed
RECURSIVE StrRemove(_, _)
StrRemove(s, old) ==
    LET i == StrFind(old, s, 1) IN
    IF i = 0 THEN s
    ELSE SubSeq(s, 1, i - 1) \o StrRemove(SubSeq(s, i + Len(old), Len(s)), old)

\* s.count(c), c one character
StrCount(s, c) == Cardinality({i \in 1..Len(s) : CharAt(s, i) = c})

---------------------------------------------------------------------------
(* Python str values of which only the length and the whitespace matter   *)
(* (resume_text, job_description) are run-length encoded: a sequence of   *)
(* runs [ch, n], n >= 1 characters of whitespace ("ws") or of             *)
(* non-whitespace ("x").                                                   *)

EmptyText == << >>

Run(ch, n) == IF n > 0 THEN << [ch |-> ch, n |-> n] >> ELSE << >>

RECURSIVE PyLen(_)
PyLen(t) == IF t = << >> THEN 0 ELSE Head(t).n + PyLen(Tail(t))

\* a slice that keeps everything
PySliceAll(t, k) == t

\* t[:k]
RECURSIVE PySlice(_, _)
PySlice(t, k) ==
    IF t = << >> \/ k <= 0 THEN << >>
    ELSE IF Head(t).n <= k
         THEN << Head(t) >> \o PySlice(Tail(t), k - Head(t).n)
         ELSE << [ch |-> Head(t).ch, n |-> k] >>

RECURSIVE PyLStrip(_)
PyLStrip(t) ==
    IF t # << >> /\ Head(t).ch = "ws" THEN PyLStrip(Tail(t)) ELSE t

RECURSIVE PyRStrip(_)
PyRStrip(t) ==
    IF t # << >> /\ t[Len(t)].ch = "ws"
    THEN PyRStrip(SubSeq(t, 1, Len(t) - 1))
    ELSE t

\* t.strip()
PyStrip(t) == PyRStrip(PyLStrip(t))

\* the runs of two texts one after the other
JoinRuns(t, u) ==
    IF t # << >> /\ u # << >> /\ t[Len(t)].ch = Head(u).ch
    THEN SubSeq(t, 1, Len(t) - 1)
             \o << [ch |-> Head(u).ch, n |-> t[Len(t)].n + Head(u).n] >>
             \o Tail(u)
    ELSE t \o u

\* the runs of a str given character by character
RECURSIVE RunsOf(_)
RunsOf(s) ==
    IF s = "" THEN << >>
    ELSE IF Len(s) = 1
    THEN << [ch |-> IF s \in WhiteSpace THEN "ws" ELSE "x", n |-> 1] >>
    ELSE JoinRuns(RunsOf(SubSeq(s, 1, Len(s) \div 2)),
                  RunsOf(SubSeq(s, Len(s) \div 2 + 1, Len(s))))

---------------------------------------------------------------------------
(* The inputs the model draws from.                                        *)

\* whitespace, a body of non-whitespace, whitespace
PaddedText(lead, body, trail) == Run("ws", lead) \o Run("x", body) \o Run("ws", trail)

ResumeBodyLens == {0, 49, 50, RESUME_TEXT_LIMIT, RESUME_TEXT_LIMIT + 1}
JobBodyLens == {0, 10, 11, JOB_DESCRIPTION_LIMIT, JOB_DESCRIPTION_LIMIT + 1}

\* no padding, or the longest
Pads == {0, MaxPad}

ResumeTexts ==
    {PaddedText(a, c, b) : a \in Pads, c \in ResumeBodyLens, b \in Pads}
JobTexts ==
    {PaddedText(a, c, b) : a \in Pads, c \in JobBodyLens, b \in Pads}

\* max_retries: int = None, as the set of the values given
MaxRetriesArgs == {{}} \cup {{n} : n \in 0..MaxRetriesArg}

\* the texts of the exceptions model.generate_content raises
ErrorTexts ==
    {"504 timeout", "504 Deadline Exceeded", "Request Timeout",
     "429 ResourceExhausted", "429 Quota exceeded", "Rate limit reached",
     "API key not valid", "API key quota exceeded", "API key check timeout",
     "API key rate limit", "Deadline exceeded: rate limit",
     "api unavailable", "Connection reset"}

\* s.lower(), computed once for each message that occurs
EmptyResponseException == "Empty response from AI model"
LowerTable == [m \in ErrorTexts \cup {EmptyResponseException} |-> LowerOf(m)]
StrLower(s) == IF s \in DOMAIN LowerTable THEN LowerTable[s] ELSE LowerOf(s)

\* the texts of the replies of the model; "" is a reply with no text
ReplyTexts ==
    {"", "   ", "**ATS SCORE: 82/100** Solid resume.", "Solid resume overall.",
     "  Solid resume overall.\n", "{\"ats_score\": 90}",
     "Error: ATS SCORE: unavailable"}

\* what one call of model.generate_content does: it returns a response with
\* a text, returns no response, or raises
Outcomes ==
    {[kind |-> "text", text |-> t] : t \in ReplyTexts}
        \cup {[kind |-> "none", text |-> ""]}
        \cup {[kind |-> "raise", text |-> m] : m \in ErrorTexts}

NoResponse == [kind |-> "pending", text |-> ""]

\* the failures the classification maps to the high-demand error
TimeoutClass(msg) ==
    /\ \/ StrContains("504", msg)
       \/ StrContains("timeout", StrLower(msg))
       \/ StrContains("deadline", StrLower(msg))
    /\ ~StrContains("quota", StrLower(msg))
    /\ ~StrContains("limit", StrLower(msg))
    /\ ~(StrContains("api", StrLower(msg)) /\ StrContains("key", StrLower(msg)))

---------------------------------------------------------------------------
(* AIAnalyzer: the messages it returns, the prompt builder, the failure    *)
(* classification and the post-processing of the reply.                    *)

\* a Python value with its type
PyStr(s) == [type |-> "str", value |-> s]
None == [type |-> "NoneType", value |-> ""]

TooShortError ==
    "Error: Resume content is too short or empty. Please upload a complete resume."
FallThroughError ==
    "Error: Unable to process resume after multiple attempts. Please try again later."
QuotaError ==
    "Error: AI service quota exceeded. Please try again in a few minutes."
ConfigurationError ==
    "Error: AI service configuration issue. Please contact support."
HighDemandError ==
    "Error: AI service is experiencing high demand. Please try again in a few moments."
ExhaustedError(n) ==
    "Error: Unable to analyze resume after " \o ToString(n)
        \o " attempts. Please try again later."
RawError(msg) == "Error: " \o msg
EmptyResponseError == "Error: Empty response from AI service."
DefaultScoreHeader == "**ATS SCORE: 75/100**\n\n"

\* the prompt: the template chosen and the texts embedded in it
NoPrompt == [template |-> "none", resume_text |-> EmptyText,
             job_description |-> EmptyText]

\* the template chosen from 10 characters on
_create_prompt_from_10(resume_text, job_description) ==
    IF PyLen(job_description) > 0 /\ PyLen(PyStrip(job_description)) >= 10
    THEN [template |-> "job_matching", resume_text |-> resume_text,
          job_description |-> job_description]
    ELSE [template |-> "general", resume_text |-> resume_text,
          job_description |-> EmptyText]

_create_prompt(resume_text, job_description) ==
    IF PyLen(job_description) > 0 /\ PyLen(PyStrip(job_description)) > 10
    THEN [template |-> "job_matching", resume_text |-> resume_text,
          job_description |-> job_description]
    ELSE [template |-> "general", resume_text |-> resume_text,
          job_description |-> EmptyText]

\* retry lists with one more keyword
retry_keywords_with_api ==
    {"504", "timeout", "deadline", "resourceexhausted", "quota", "api"}
retry_keywords_with_limit ==
    {"504", "timeout", "deadline", "resourceexhausted", "quota", "limit"}

retry_keywords == {"504", "timeout", "deadline", "resourceexhausted", "quota"}

\* a retry of every failure while attempts remain
_should_retry_any(msg, att, maxr) == att < maxr - 1

_should_retry(msg, att, maxr) ==
    IF att >= maxr - 1
    THEN FALSE
    ELSE \E keyword \in retry_keywords : StrContains(keyword, StrLower(msg))

\* a classification whose last case returns the message as it is
_handle_error_unprefixed(msg, att, maxr) ==
    LET error_lower == StrLower(msg) IN
    IF StrContains("quota", error_lower) \/ StrContains("limit", error_lower)
    THEN QuotaError
    ELSE IF StrContains("api", error_lower) /\ StrContains("key", error_lower)
    THEN ConfigurationError
    ELSE IF \/ StrContains("504", msg)
            \/ StrContains("timeout", error_lower)
            \/ StrContains("deadline", error_lower)
    THEN HighDemandError
    ELSE IF att >= maxr - 1
    THEN ExhaustedError(maxr)
    ELSE msg

_handle_error(msg, att, maxr) ==
    LET error_lower == StrLower(msg) IN
    IF StrContains("quota", error_lower) \/ StrContains("limit", error_lower)
    THEN QuotaError
    ELSE IF StrContains("api", error_lower) /\ StrContains("key", error_lower)
    THEN ConfigurationError
    ELSE IF \/ StrContains("504", msg)
            \/ StrContains("timeout", error_lower)
            \/ StrContains("deadline", error_lower)
    THEN HighDemandError
    ELSE IF att >= maxr - 1
    THEN ExhaustedError(maxr)
    ELSE RawError(msg)

\* the validation without the strip
InputTooShortUntrimmed(resume_text) ==
    PyLen(resume_text) = 0 \/ PyLen(resume_text) < 50

\* the guard of the input validation: `not resume_text or len(resume_text.strip()) < 50`
InputTooShort(resume_text) ==
    PyLen(resume_text) = 0 \/ PyLen(PyStrip(resume_text)) < 50

\* the backoff computed from the index alone
WaitTimeFromZero(att) == att * 2

\* the backoff: wait_time = (attempt + 1) * 2
WaitTime(att) == (att + 1) * 2

\* a loop that does not advance
SameIndex(att) == att

\* the index `for attempt in range(max_retries)` gives after att
NextIndex(att) == att + 1

_post_process_response(response_text) ==
    IF response_text = ""
    THEN EmptyResponseError
    ELSE LET cleaned_response == StrStrip(response_text) IN
         IF ~StrContains("ATS SCORE:", cleaned_response)
         THEN DefaultScoreHeader \o cleaned_response
         ELSE cleaned_response

---------------------------------------------------------------------------
(* FileValidator: the upload, what the type sniffing says of it, and the   *)
(* checks of validate_upload.                                              *)

\* max_size=16*1024*1024
MAX_FILE_SIZE == 16 * 1024 * 1024

ALLOWED_EXTENSIONS == {"pdf"}

ALLOWED_MIME_TYPES ==
    {"application/pdf", "application/x-pdf", "application/acrobat",
     "applications/vnd.pdf", "text/pdf", "text/x-pdf"}

\* what PyPDF2.PdfReader makes of a content that is no PDF document
Unparseable ==
    [kind |-> "raise", msg |-> "EOF marker not found", is_encrypted |-> FALSE,
     pages |-> << >>]

\* a byte buffer: its first bytes (six at most), its length, and what
\* PyPDF2.PdfReader makes of it
Bytes(head, n, pdf) == [head |-> head, n |-> n, pdf |-> pdf]

\* file_content.startswith(prefix)
BytesStartWith(file_content, prefix) ==
    file_content.n >= Len(prefix) /\ StrStartsWith(file_content.head, prefix)

\* no file object at all (None)
NoFile == [present |-> FALSE, filename |-> "", content |-> Bytes("", 0, Unparseable)]

\* an uploaded file (werkzeug FileStorage)
FileStorage(filename, content) ==
    [present |-> TRUE, filename |-> filename, content |-> content]

\* `not file`: None is falsy, and a FileStorage is falsy when its filename is empty
PyNotFile(f) == ~f.present \/ f.filename = ""

\* file.read(): the bytes of the content from the position pos to the end
read(f, pos) ==
    IF pos = 0 THEN f.content
    ELSE Bytes("", f.content.n - pos, Unparseable)

\* a seek that leaves the position where it is
seek_ignored(pos, offset) == pos

\* file.seek(offset) of a stream at the position pos: the new position
seek(pos, offset) == offset

allowed_file(filename) ==
    IF filename = "" THEN FALSE
    ELSE LET dot == StrRFind(".", filename, Len(filename)) IN
         /\ dot > 0
         /\ StrLower(SubSeq(filename, dot + 1, Len(filename))) \in ALLOWED_EXTENSIONS

\* the outcomes of magic.from_buffer(file_content, mime=True) on a buffer:
\* libmagic knows a PDF by the header at the start, and also after one line
\* feed; it may fail on any buffer
MagicOutcomes(file_content) ==
    {[kind |-> "raise", mime |-> ""]} \cup
    (IF BytesStartWith(file_content, "%PDF-")
     THEN {[kind |-> "mime", mime |-> "application/pdf"]}
     ELSE IF BytesStartWith(file_content, "\n%PDF-")
     THEN {[kind |-> "mime", mime |-> "application/pdf"],
           [kind |-> "mime", mime |-> "text/plain"]}
     ELSE IF file_content.n = 0
     THEN {[kind |-> "mime", mime |-> "application/x-empty"]}
     ELSE {[kind |-> "mime", mime |-> "text/plain"]})

\* mime_type is what magic.from_buffer does on the buffer
validate_file_type(file_content, magic_available, mime) ==
    IF ~magic_available
    THEN BytesStartWith(file_content, "%PDF-")
    ELSE IF mime.kind = "mime"
         THEN mime.mime \in ALLOWED_MIME_TYPES
         ELSE BytesStartWith(file_content, "%PDF-")

\* a limit that 16 MiB itself exceeds
validate_file_size_below(file_size, max_size) == file_size < max_size

validate_file_size(file_size, max_size) == file_size <= max_size

\* the value validate_upload returns
Validation(accepted, errors) == [accepted |-> accepted, errors |-> errors]
NoValidation == [accepted |-> FALSE, errors |-> <<"(not validated)">>]

\* validate_upload gets as far as file.read()
ReadsContent(f) == ~PyNotFile(f) /\ f.filename # "" /\ allowed_file(f.filename)

\* validate_upload of src/validators/file_validator.py
validate_upload(f, magic_available, mime) ==
    IF PyNotFile(f)
    THEN Validation(FALSE, <<"No file provided">>)
    ELSE IF f.filename = ""
    THEN Validation(FALSE, <<"No file selected">>)
    ELSE IF ~allowed_file(f.filename)
    THEN Validation(FALSE, <<"Please upload a PDF file only">>)
    ELSE IF ~validate_file_size(f.content.n, MAX_FILE_SIZE)
    THEN Validation(FALSE, <<"File size exceeds 16MB limit">>)
    ELSE IF ~validate_file_type(f.content, magic_available, mime)
    THEN Validation(FALSE, <<"Invalid PDF file format">>)
    ELSE Validation(TRUE, << >>)

\* validate_upload of app.py: the same without the check of the type
app_validate_upload(f) ==
    IF PyNotFile(f)
    THEN Validation(FALSE, <<"No file provided">>)
    ELSE IF f.filename = ""
    THEN Validation(FALSE, <<"No file selected">>)
    ELSE IF ~allowed_file(f.filename)
    THEN Validation(FALSE, <<"Please upload a PDF file only">>)
    ELSE IF ~validate_file_size(f.content.n, MAX_FILE_SIZE)
    THEN Validation(FALSE, <<"File size exceeds 16MB limit">>)
    ELSE Validation(TRUE, << >>)

RESUME_KEYWORDS ==
    <<"experience", "education", "skills", "work", "employment",
      "university", "college", "degree", "bachelor", "master",
      "project", "achievement", "responsibility", "job", "career",
      "professional", "technical", "qualification", "certificate">>

\* the keywords of the list that occur in a text
KeywordsIn(text_lower) ==
    {i \in 1..Len(RESUME_KEYWORDS) : StrContains(RESUME_KEYWORDS[i], text_lower)}

\* every text taken for a resume
is_resume_content_any(text_content) == TRUE

\* a resume from two keywords on
is_resume_content_from_2(text_content) ==
    IF text_content = "" \/ Len(StrStrip(text_content)) < 100
    THEN FALSE
    ELSE Cardinality(KeywordsIn(StrLower(text_content))) >= 2

is_resume_content(text_content) ==
    IF text_content = "" \/ Len(StrStrip(text_content)) < 100
    THEN FALSE
    ELSE LET text_lower == StrLower(text_content)
             keyword_count == Cardinality(KeywordsIn(text_lower))
         IN keyword_count >= 3

---------------------------------------------------------------------------
(* PDFProcessor: the messages of extract_text_from_pdf and _clean_text.    *)

EncryptedError ==
    "Cannot process encrypted PDF files. Please upload an unencrypted version."
EmptyPdfError == "PDF file appears to be empty or corrupted."
NotExtractableError ==
    "Could not extract text from PDF. The file might be image-based or corrupted."
NotAResumeError ==
    "This doesn't appear to be a resume. Please upload a valid resume document."
InvalidPdfError == "Invalid or corrupted PDF file. Please upload a valid PDF resume."
ProcessingError(msg) == "Error processing PDF: " \o msg

\* the value extract_text_from_pdf returns
Extraction(success, res) == [success |-> success, result |-> res]
NoExtraction == [success |-> FALSE, result |-> "(not extracted)"]

\* the artifacts of _clean_text that a str of ASCII characters can hold, in
\* the order of the list
artifacts == <<"/ne+", "/gtb">>

\* for artifact in artifacts: cleaned_text = cleaned_text.replace(artifact, '')
RECURSIVE RemoveArtifacts(_, _)
RemoveArtifacts(cleaned_text, arts) ==
    IF arts = << >> THEN cleaned_text
    ELSE RemoveArtifacts(StrRemove(cleaned_text, Head(arts)), Tail(arts))

\* [line.strip() for line in pieces if line.strip()]
NotEmpty(line) == line # ""
StrippedLines(pieces) ==
    SelectSeq([i \in 1..Len(pieces) |-> StrStrip(pieces[i])], NotEmpty)

_clean_text(t) ==
    IF t = "" THEN ""
    ELSE LET lines == StrippedLines(StrSplit(t, "\n"))
             cleaned_text == StrJoin("\n", lines)
         IN RemoveArtifacts(cleaned_text, artifacts)

\* the part of extract_text_from_pdf after the loop over the pages
ExtractionOf(t) ==
    IF StrStrip(t) = ""
    THEN Extraction(FALSE, NotExtractableError)
    ELSE IF ~is_resume_content(t)
    THEN Extraction(FALSE, NotAResumeError)
    ELSE Extraction(TRUE, _clean_text(t))

\* the handler of the exceptions of extract_text_from_pdf
ExtractionFailure(msg) ==
    IF StrContains("PDF", msg)
    THEN Extraction(FALSE, InvalidPdfError)
    ELSE Extraction(FALSE, ProcessingError(msg))

---------------------------------------------------------------------------
(* LaTeXService: validate_latex, the messages of compile_to_pdf, and the   *)
(* sources the model draws from.                                           *)

\* largest number of working directories one service makes
MaxCompiles == 2

\* for _ in range(2)
COMPILER_PASSES == 2

\* the characters \w matches in a str of ASCII characters
WordChars == UpperCase \o LowerCase \o "0123456789_"

\* the number of characters of s from index i on that \w matches
RECURSIVE WordRun(_, _)
WordRun(s, i) ==
    IF i <= Len(s) /\ StrContains(CharAt(s, i), WordChars)
    THEN 1 + WordRun(s, i + 1)
    ELSE 0

\* re.findall(r'\\cmd\{(\w+)\}', s), cmd being begin or end
RECURSIVE EnvNames(_, _)
EnvNames(cmd, s) ==
    LET opening == "\\" \o cmd \o "{"
        i == StrFind(opening, s, 1)
    IN IF i = 0 THEN << >>
       ELSE LET from == i + Len(opening)
                k == WordRun(s, from)
            IN IF k > 0 /\ from + k <= Len(s) /\ CharAt(s, from + k) = "}"
               THEN << SubSeq(s, from, from + k - 1) >>
                        \o EnvNames(cmd, SubSeq(s, from + k + 1, Len(s)))
               ELSE EnvNames(cmd, SubSeq(s, i + 1, Len(s)))

\* names.count(env)
CountOf(names, env) == Cardinality({i \in 1..Len(names) : names[i] = env})

UnbalancedBraces(open_braces, close_braces) ==
    "Unbalanced braces: " \o ToString(open_braces) \o " opening, "
        \o ToString(close_braces) \o " closing"

\* for env in begin_envs: the error of each env whose counts differ
RECURSIVE UnbalancedEnvs(_, _, _)
UnbalancedEnvs(envs, begin_envs, end_envs) ==
    IF envs = << >> THEN << >>
    ELSE (IF CountOf(begin_envs, Head(envs)) # CountOf(end_envs, Head(envs))
          THEN << "Unbalanced environment: " \o Head(envs) >>
          ELSE << >>)
         \o UnbalancedEnvs(Tail(envs), begin_envs, end_envs)

\* the errors validate_latex collects
LatexErrors(code) ==
    LET open_braces == StrCount(code, "{")
        close_braces == StrCount(code, "}")
        begin_envs == EnvNames("begin", code)
        end_envs == EnvNames("end", code)
    IN (IF ~StrContains("\\documentclass", code)
        THEN << "Missing \\documentclass declaration" >> ELSE << >>)
       \o (IF ~StrContains("\\begin{document}", code)
           THEN << "Missing \\begin{document}" >> ELSE << >>)
       \o (IF ~StrContains("\\end{document}", code)
           THEN << "Missing \\end{document}" >> ELSE << >>)
       \o (IF open_braces # close_braces
           THEN << UnbalancedBraces(open_braces, close_braces) >> ELSE << >>)
       \o UnbalancedEnvs(begin_envs, begin_envs, end_envs)

\* the value validate_latex returns
LatexValidation(errors) == [is_valid |-> Len(errors) = 0, errors |-> errors]

validate_latex(code) == LatexValidation(LatexErrors(code))

\* the value compile_to_pdf returns: the bytes of the PDF, or a message
Compiled(success, value) ==
    [of |-> "compile_to_pdf", success |-> success, value |-> value,
     errors |-> << >>]
\* the value validate_latex returns, as the caller of validate_latex holds it
Validated(v) ==
    [of |-> "validate_latex", success |-> v.is_valid, value |-> "",
     errors |-> v.errors]
NoCompilation ==
    [of |-> "none", success |-> FALSE, value |-> "(not returned)", errors |-> << >>]
PdfContent == "%PDF-1.5 (resume.pdf)"

CompilerUnavailableError ==
    "LaTeX compiler (pdflatex) is not available on this system"
ValidationFailedError(errors) ==
    "LaTeX validation failed: " \o StrJoin("; ", errors)
CompilationTimedOutError == "LaTeX compilation timed out"
CompilationFailedError == "Compilation failed"

---------------------------------------------------------------------------
(* latex_templates.py: escape_latex and the three templates that turn a    *)
(* ResumeData into LaTeX source, and generate_latex_from_data.             *)

\* s.replace(old, new): the occurrences of old, found from left to right
\* without overlap, are replaced
RECURSIVE StrReplace(_, _, _)
StrReplace(s, old, new) ==
    LET i == StrFind(old, s, 1) IN
    IF i = 0 THEN s
    ELSE SubSeq(s, 1, i - 1) \o new
             \o StrReplace(SubSeq(s, i + Len(old), Len(s)), old, new)

\* ResumeData(): every field at its default, the lists made empty lists by
\* __post_init__
EmptyResumeData ==
    [name |-> "", email |-> "", phone |-> "", location |-> "", linkedin |-> "",
     github |-> "", website |-> "", summary |-> "", experience |-> << >>,
     education |-> << >>, skills |-> << >>, projects |-> << >>,
     certifications |-> << >>]

\* ResumeData(**kw): the fields given, the others at their defaults
ResumeData(kw) ==
    [f \in DOMAIN EmptyResumeData |->
        IF f \in DOMAIN kw THEN kw[f] ELSE EmptyResumeData[f]]

\* the pairs (old, new) of escape_latex, in the order they are applied
replacements ==
    << <<"\\", "\\textbackslash{}">>,
       <<"&", "\\&">>,
       <<"%", "\\%">>,
       <<"$", "\\$">>,
       <<"#", "\\#">>,
       <<"_", "\\_">>,
       <<"{", "\\{">>,
       <<"}", "\\}">>,
       <<"~", "\\textasciitilde{}">>,
       <<"^", "\\textasciicircum{}">> >>

\* for old, new in pairs: s = s.replace(old, new)
RECURSIVE ReplaceEach(_, _)
ReplaceEach(s, pairs) ==
    IF pairs = << >> THEN s
    ELSE ReplaceEach(StrReplace(s, Head(pairs)[1], Head(pairs)[2]),
                     Tail(pairs))

escape_latex(s) ==
    IF s = "" THEN "" ELSE ReplaceEach(s, replacements)

\* [escape_latex(s) for s in texts]
EscapeEach(texts) == [i \in 1..Len(texts) |-> escape_latex(texts[i])]

\* ''.join(items)
Concat(items) == StrJoin("", items)

ModernHeader ==
    "\\documentclass[11pt,a4paper]{article}\n"
    \o "\n"
    \o "% Packages\n"
    \o "\\usepackage[utf8]{inputenc}\n"
    \o "\\usepackage[T1]{fontenc}\n"
    \o "\\usepackage{lmodern}\n"
    \o "\\usepackage[margin=0.75in]{geometry}\n"
    \o "\\usepackage{enumitem}\n"
    \o "\\usepackage{hyperref}\n"
    \o "\\usepackage{xcolor}\n"
    \o "\\usepackage{titlesec}\n"
    \o "\n"
    \o "% Colors\n"
    \o "\\definecolor{primary}{RGB}{0, 79, 144}\n"
    \o "\\definecolor{secondary}{RGB}{100, 100, 100}\n"
    \o "\n"
    \o "% Section formatting\n"
    \o "\\titleformat{\\section}{\\large\\bfseries\\color{primary}}{}{0em}{}[\\titlerule]\n"
    \o "\\titlespacing{\\section}{0pt}{10pt}{5pt}\n"
    \o "\n"
    \o "% Hyperlink setup\n"
    \o "\\hypersetup{\n"
    \o "    colorlinks=true,\n"
    \o "    linkcolor=primary,\n"
    \o "    urlcolor=primary\n"
    \o "}\n"
    \o "\n"
    \o "% Remove paragraph indentation\n"
    \o "\\setlength{\\parindent}{0pt}\n"
    \o "\n"
    \o "\\begin{document}\n"
    \o "\n"
    \o "% Header\n"
    \o "\\begin{center}\n"

ModernMiddle ==
    "\\end{center}\n"
    \o "\n"

ModernFooter ==
    "\n"
    \o "\\end{document}\n"

\* the items of ModernTemplate._generate_contact_line
ContactItems(data) ==
    (IF data.email # ""
     THEN << "\\href{mailto:" \o data.email \o "}{"
                 \o escape_latex(data.email) \o "}" >>
     ELSE << >>)
    \o (IF data.phone # "" THEN << escape_latex(data.phone) >> ELSE << >>)
    \o (IF data.location # "" THEN << escape_latex(data.location) >> ELSE << >>)
    \o (IF data.linkedin # ""
        THEN << "\\href{" \o data.linkedin \o "}{LinkedIn}" >> ELSE << >>)
    \o (IF data.github # ""
        THEN << "\\href{" \o data.github \o "}{GitHub}" >> ELSE << >>)
    \o (IF data.website # ""
        THEN << "\\href{" \o data.website \o "}{Portfolio}" >> ELSE << >>)

_generate_contact_line(data) == StrJoin(" $|$ ", ContactItems(data))

_generate_summary(data) ==
    IF data.summary = "" THEN ""
    ELSE "\\section*{Professional Summary}\n" \o escape_latex(data.summary)
             \o "\n\n"

\* one item of ModernTemplate._generate_experience
ExperienceItem(exp) ==
    LET title == escape_latex(exp.title)
        company == escape_latex(exp.company)
        location == escape_latex(exp.location)
        dates == escape_latex(exp.dates)
        resp_items ==
            StrJoin("\n", [i \in 1..Len(exp.responsibilities) |->
                              "    \\item "
                                  \o escape_latex(exp.responsibilities[i])])
    IN "\\textbf{" \o title \o "} \\hfill " \o dates \o "\\\\\n"
           \o "\\textit{" \o company \o "} \\hfill " \o location \o "\n"
           \o "\\begin{itemize}[leftmargin=*,noitemsep]\n"
           \o resp_items \o "\n"
           \o "\\end{itemize}\n"

_generate_experience(data) ==
    IF data.experience = << >> THEN ""
    ELSE "\\section*{Experience}\n"
             \o Concat([i \in 1..Len(data.experience) |->
                           ExperienceItem(data.experience[i])])
             \o "\n"

\* one item of ModernTemplate._generate_education
EducationItem(edu) ==
    LET degree == escape_latex(edu.degree)
        institution == escape_latex(edu.institution)
        dates == escape_latex(edu.dates)
        gpa_text == IF edu.gpa # "" THEN " (GPA: " \o edu.gpa \o ")" ELSE ""
    IN "\\textbf{" \o degree \o "}" \o gpa_text \o " \\hfill " \o dates
           \o "\\\\\n"
           \o "\\textit{" \o institution \o "}\\\\[5pt]\n"

_generate_education(data) ==
    IF data.education = << >> THEN ""
    ELSE "\\section*{Education}\n"
             \o Concat([i \in 1..Len(data.education) |->
                           EducationItem(data.education[i])])
             \o "\n"

_generate_skills(data) ==
    IF data.skills = << >> THEN ""
    ELSE "\\section*{Skills}\n" \o StrJoin(", ", EscapeEach(data.skills))
             \o "\n\n"

\* one item of ModernTemplate._generate_projects
ProjectItem(proj) ==
    LET name == escape_latex(proj.name)
        description == escape_latex(proj.description)
        tech == proj.technologies
        tech_text == IF tech # << >>
                     THEN " \\textit{(" \o StrJoin(", ", EscapeEach(tech))
                              \o ")}"
                     ELSE ""
    IN "\\textbf{" \o name \o "}" \o tech_text \o ": " \o description
           \o "\\\\[3pt]\n"

_generate_projects(data) ==
    IF data.projects = << >> THEN ""
    ELSE "\\section*{Projects}\n"
             \o Concat([i \in 1..Len(data.projects) |->
                           ProjectItem(data.projects[i])])
             \o "\n"

_generate_certifications(data) ==
    IF data.certifications = << >> THEN ""
    ELSE "\\section*{Certifications}\n"
             \o "\\begin{itemize}[leftmargin=*,noitemsep]\n"
             \o StrJoin("\n", [i \in 1..Len(data.certifications) |->
                                  "\\item "
                                      \o escape_latex(data.certifications[i])])
             \o "\n\\end{itemize}\n"

\* ModernTemplate.generate
ModernGenerate(data) ==
    LET name_line == "    {\\LARGE\\bfseries " \o escape_latex(data.name)
                         \o "}\\\\[5pt]\n"
        contact_line == "    " \o _generate_contact_line(data) \o "\n"
    IN ModernHeader \o name_line \o contact_line \o ModernMiddle
           \o _generate_summary(data) \o _generate_experience(data)
           \o _generate_education(data) \o _generate_skills(data)
           \o _generate_projects(data) \o _generate_certifications(data)
           \o ModernFooter

MinimalHeader ==
    "\\documentclass[11pt,a4paper]{article}\n"
    \o "\n"
    \o "\\usepackage[utf8]{inputenc}\n"
    \o "\\usepackage[T1]{fontenc}\n"
    \o "\\usepackage[margin=1in]{geometry}\n"
    \o "\\usepackage{enumitem}\n"
    \o "\\usepackage{hyperref}\n"
    \o "\n"
    \o "\\setlength{\\parindent}{0pt}\n"
    \o "\\pagestyle{empty}\n"
    \o "\n"
    \o "\\begin{document}\n"
    \o "\n"

MinimalFooter ==
    "\n"
    \o "\\end{document}\n"

\* the sections of MinimalTemplate._generate_body
BodySections(data) ==
    (IF data.summary # ""
     THEN << "\\textbf{Summary}\\\\[3pt]\n" \o escape_latex(data.summary)
                 \o "\\\\[10pt]" >>
     ELSE << >>)
    \o (IF data.experience # << >>
        THEN << "\\textbf{Experience}\\\\[3pt]\n"
                    \o StrJoin("\\\\[3pt]\n",
                               [i \in 1..Len(data.experience) |->
                                   escape_latex(data.experience[i].title)
                                       \o " at "
                                       \o escape_latex(data.experience[i].company)
                                       \o " \\hfill "
                                       \o escape_latex(data.experience[i].dates)])
                    \o "\\\\[10pt]" >>
        ELSE << >>)
    \o (IF data.education # << >>
        THEN << "\\textbf{Education}\\\\[3pt]\n"
                    \o StrJoin("\\\\[3pt]\n",
                               [i \in 1..Len(data.education) |->
                                   escape_latex(data.education[i].degree)
                                       \o ", "
                                       \o escape_latex(data.education[i].institution)
                                       \o " \\hfill "
                                       \o escape_latex(data.education[i].dates)])
                    \o "\\\\[10pt]" >>
        ELSE << >>)
    \o (IF data.skills # << >>
        THEN << "\\textbf{Skills}\\\\[3pt]\n"
                    \o StrJoin(", ", EscapeEach(data.skills)) >>
        ELSE << >>)

_generate_body(data) == StrJoin("\n\n", BodySections(data))

\* MinimalTemplate.generate
MinimalGenerate(data) ==
    LET name_line == "{\\Large\\bfseries " \o escape_latex(data.name)
                         \o "}\\\\[5pt]\n"
        contact == escape_latex(data.email) \o " $\\cdot$ "
                       \o escape_latex(data.phone)
        contact_line ==
            contact
                \o (IF data.location # ""
                    THEN " $\\cdot$ " \o escape_latex(data.location) ELSE "")
                \o "\n\n\\hrule\n\\vspace{10pt}\n\n"
    IN MinimalHeader \o name_line \o contact_line \o _generate_body(data)
           \o MinimalFooter

AcademicHeader ==
    "\\documentclass[11pt,a4paper]{article}\n"
    \o "\n"
    \o "\\usepackage[utf8]{inputenc}\n"
    \o "\\usepackage[T1]{fontenc}\n"
    \o "\\usepackage[margin=1in]{geometry}\n"
    \o "\\usepackage{enumitem}\n"
    \o "\\usepackage{hyperref}\n"
    \o "\\usepackage{titlesec}\n"
    \o "\n"
    \o "\\titleformat{\\section}{\\large\\bfseries}{}{0em}{}[\\hrule]\n"
    \o "\\titlespacing{\\section}{0pt}{12pt}{6pt}\n"
    \o "\n"
    \o "\\setlength{\\parindent}{0pt}\n"
    \o "\\pagestyle{empty}\n"
    \o "\n"
    \o "\\begin{document}\n"
    \o "\n"
    \o "\\begin{center}\n"

AcademicFooter ==
    "\n"
    \o "\\end{document}\n"

\* the sections of AcademicTemplate._generate_sections
AcademicSections(data) ==
    (IF data.education # << >>
     THEN << "\\section*{Education}\n"
                 \o StrJoin("\n",
                            [i \in 1..Len(data.education) |->
                                "\\textbf{"
                                    \o escape_latex(data.education[i].degree)
                                    \o "}\\\\"
                                    \o escape_latex(data.education[i].institution)
                                    \o " \\hfill "
                                    \o escape_latex(data.education[i].dates)
                                    \o "\\\\[5pt]"]) >>
     ELSE << >>)
    \o (IF data.experience # << >>
        THEN << "\\section*{Research Experience}\n"
                    \o StrJoin("\n",
                               [i \in 1..Len(data.experience) |->
                                   "\\textbf{"
                                       \o escape_latex(data.experience[i].title)
                                       \o "}, "
                                       \o escape_latex(data.experience[i].company)
                                       \o " \\hfill "
                                       \o escape_latex(data.experience[i].dates)
                                       \o "\\\\[5pt]"]) >>
        ELSE << >>)
    \o (IF data.skills # << >>
        THEN << "\\section*{Technical Skills}\n"
                    \o StrJoin(", ", EscapeEach(data.skills)) >>
        ELSE << >>)
    \o (IF data.projects # << >>
        THEN << "\\section*{Publications \\& Projects}\n"
                    \o StrJoin("\n",
                               [i \in 1..Len(data.projects) |->
                                   "\\textbf{"
                                       \o escape_latex(data.projects[i].name)
                                       \o "}: "
                                       \o escape_latex(data.projects[i].description)
                                       \o "\\\\[3pt]"]) >>
        ELSE << >>)

_generate_sections(data) == StrJoin("\n\n", AcademicSections(data))

\* AcademicTemplate.generate
AcademicGenerate(data) ==
    LET name_line == "{\\LARGE\\bfseries " \o escape_latex(data.name)
                         \o "}\\\\[10pt]\n"
        contact == escape_latex(data.email) \o " $|$ "
                       \o escape_latex(data.phone)
                       \o (IF data.location # ""
                           THEN " $|$ " \o escape_latex(data.location) ELSE "")
        contact_line == contact \o "\n\\end{center}\n\n"
    IN AcademicHeader \o name_line \o contact_line \o _generate_sections(data)
           \o AcademicFooter

\* the keys of the registry TEMPLATES
TEMPLATES == {"modern", "minimal", "academic"}

\* get_template(template).generate(data), for a template of the registry
generate_latex_from_data(data, template) ==
    IF template = "modern" THEN ModernGenerate(data)
    ELSE IF template = "minimal" THEN MinimalGenerate(data)
    ELSE AcademicGenerate(data)

---------------------------------------------------------------------------
\* a removal that removes nothing
rmtree_kept(dirs, d) == dirs

\* shutil.rmtree(temp_dir, ignore_errors=True)
rmtree(dirs, d) == dirs \ {d}

GoodSource ==
    "\\documentclass{article}\n\\begin{document}\nHello\n\\end{document}\n"
ListSource ==
    "\\documentclass{article}\n\\begin{document}\n\\begin{itemize}\n\\item A\n"
        \o "\\end{itemize}\n\\end{document}\n"
NoClassSource == "\\begin{document}\nHello\n\\end{document}\n"
NoEndSource == "\\documentclass{article}\n\\begin{document}\nHello\n"
OpenBraceSource ==
    "\\documentclass{article}\n\\begin{document}\n\\textbf{Hello\n\\end{document}\n"
StrayEndSource ==
    "\\documentclass{article}\n\\begin{document}\nHello\n\\end{itemize}\n"
        \o "\\end{document}\n"
StrayBeginSource ==
    "\\documentclass{article}\n\\begin{document}\n\\begin{itemize}\n\\item A\n"
        \o "\\end{document}\n"
TwiceBegunSource ==
    "\\documentclass{article}\n\\begin{document}\n\\begin{itemize}\n"
        \o "\\begin{itemize}\n\\end{itemize}\n\\end{document}\n"

LatexSources ==
    {GoodSource, ListSource, NoClassSource, NoEndSource, OpenBraceSource,
     StrayEndSource, StrayBeginSource, TwiceBegunSource, ""}

\* what the steps of a compilation meet: the write of the source, one run of
\* pdflatex, the files found after the runs
WriteOutcomes == {"written", "raise"}
RunOutcomes == {"exit 0", "exit 1", "timeout", "raise"}
OutputOutcomes ==
    {"pdf", "pdf unreadable", "no log", "log without error", "log with error",
     "log unreadable"}

WriteError == "[Errno 28] No space left on device"
RunError == "[Errno 2] No such file or directory: 'pdflatex'"
ReadError == "[Errno 5] Input/output error"
LogError == "! Undefined control sequence."

---------------------------------------------------------------------------
(* The uploads and the documents the model draws from.                     *)

\* largest number of pages of a document
MaxPages == 2

Filenames ==
    {"resume.pdf", "resume.PDF", "cv.v2.Pdf", ".pdf", "resume.pdf.exe",
     "resume.pdf.", "resume", "pdf", ""}

\* what PyPDF2.PdfReader makes of a content: it raises, or gives a document
\* with its encryption flag and its pages
ReaderRaises(msg) ==
    [kind |-> "raise", msg |-> msg, is_encrypted |-> FALSE, pages |-> << >>]
Document(is_encrypted, pages) ==
    [kind |-> "document", msg |-> "", is_encrypted |-> is_encrypted, pages |-> pages]
NoReader == [kind |-> "none", msg |-> "", is_encrypted |-> FALSE, pages |-> << >>]

\* the texts page.extract_text() returns
ResumePage ==
    "Work Experience\n\n  Software engineer, ACME /gtb 2019-2024  \n\nEducation\n"
        \o "  B.Sc. Computer Science, State University\n\nSkills: Python, SQL\n"
SparsePage == "Work" \o StrTimes("\n", 100) \o "Job Skills"
EssayPage == StrTimes("Lorem ipsum dolor sit amet. ", 4)
TwoKeywordPage == "Experience and education."
ArtifactPage == "/gtb" \o StrTimes(" ", 96) \o "/ne+"
BlankPage == " \n \n"

PageTexts ==
    {ResumePage, SparsePage, EssayPage, TwoKeywordPage, ArtifactPage, BlankPage, ""}

\* what page.extract_text() does: it returns a text, or raises
PageOutcomes ==
    {[kind |-> "text", text |-> t] : t \in PageTexts}
        \cup {[kind |-> "raise", text |-> ""]}

PageSeqs == UNION {[1..n -> PageOutcomes] : n \in 0..MaxPages}

ReaderOutcomes ==
    {ReaderRaises("EOF marker not found"),
     ReaderRaises("Could not read malformed PDF file")}
        \cup {Document(e, p) : e \in BOOLEAN, p \in PageSeqs}

\* the contents given to validate_upload: a header or none, and a length of
\* a few bytes, of 16 MiB, of one byte more
UploadContents ==
    {Bytes(h, n, Unparseable) :
        h \in {"%PDF-1", "\n%PDF-", "<html>"},
        n \in {6, MAX_FILE_SIZE, MAX_FILE_SIZE + 1}}
        \cup {Bytes("", 0, Unparseable), Bytes("%PDF", 4, Unparseable),
              Bytes("%PDF-", 5, Unparseable)}

UploadFiles ==
    {NoFile} \cup {FileStorage(f, c) : f \in Filenames, c \in UploadContents}

\* the files given to extract_text_from_pdf
PdfFiles ==
    {FileStorage("resume.pdf", Bytes("%PDF-1", 2048, r)) : r \in ReaderOutcomes}

OnePage(t) == Document(FALSE, << [kind |-> "text", text |-> t] >>)

\* the uploads sent to the routes
RouteFiles ==
    {NoFile,
     FileStorage("", Bytes("%PDF-1", 2048, OnePage(ResumePage))),
     FileStorage("resume.txt", Bytes("<html>", 2048, Unparseable)),
     FileStorage("resume.pdf", Bytes("%PDF-1", MAX_FILE_SIZE + 1, OnePage(ResumePage))),
     FileStorage("resume.pdf", Bytes("<html>", 2048, Unparseable)),
     FileStorage("resume.pdf", Bytes("\n%PDF-", 2048, OnePage(ResumePage))),
     FileStorage("resume.pdf", Bytes("%PDF-1", 2048, ReaderRaises("Could not read malformed PDF file"))),
     FileStorage("resume.pdf", Bytes("%PDF-1", 2048, Document(TRUE, << >>))),
     FileStorage("resume.pdf", Bytes("%PDF-1", 2048, OnePage(EssayPage))),
     FileStorage("resume.pdf", Bytes("%PDF-1", 2048, OnePage(SparsePage))),
     FileStorage("resume.pdf", Bytes("%PDF-1", 2048, OnePage(ResumePage)))}

\* the job_description fields of the form
FormJobDescriptions == {EmptyText, PaddedText(1, 11, 1)}

NoMime == [kind |-> "none", mime |-> ""]

---------------------------------------------------------------------------
(* The state machine.                                                      *)

\* no upload is being handled
ReqIdle ==
    /\ app = "src"
    /\ call = "none"
    /\ file = NoFile
    /\ MAGIC_AVAILABLE = FALSE
    /\ mime_type = NoMime
    /\ rpc = "idle"
    /\ validation = NoValidation
    /\ pdf_reader = NoReader
    /\ page_num = 0
    /\ text = ""
    /\ extraction = NoExtraction
    /\ extract_calls = 0
    /\ readers = 0
    /\ status = 0
    /\ cursor = 0
    /\ read_sizes = << >>
    /\ exception = ""
    /\ response_body = {}

\* no document is being compiled
TexIdle ==
    /\ latex_available = FALSE
    /\ latex_code = ""
    /\ lpc = "idle"
    /\ temp_dirs = {}
    /\ temp_dir = 0
    /\ made_dirs = 0
    /\ runs = 0
    /\ file_io = 0
    /\ run_results = << >>
    /\ workdir = ""
    /\ compiled = NoCompilation
    /\ resume = EmptyResumeData
    /\ template_name = "modern"

Init ==
    /\ ReqIdle
    /\ TexIdle
    /\ entry \in {"analyze_resume", "_create_prompt"}
    /\ args \in [resume_text : ResumeTexts, job_description : JobTexts,
                 max_retries : MaxRetriesArgs]
    /\ entry = "_create_prompt" => args.max_retries = {}
    /\ pc = "start"
    /\ max_retries = 0
    /\ attempt = 0
    /\ prompt = NoPrompt
    /\ response = NoResponse
    /\ error_msg = ""
    /\ wait_time = 0
    /\ result = None
    /\ calls = 0
    /\ sleeps = << >>
    /\ onlyTimeouts = TRUE
    /\ threads = << >>

\* the loop over range(max_retries + 1)
LoopHeadInclusive(att, maxr) ==
    /\ attempt' = att
    /\ IF att <= maxr
       THEN /\ pc' = "attempting"
            /\ calls' = calls + 1
            /\ result' = result
       ELSE /\ pc' = "done"
            /\ calls' = calls
            /\ result' = PyStr(FallThroughError)

\* `for attempt in range(max_retries)` reaching index att: the next external
\* call is issued, or the loop is over and the function falls through
LoopHead(att, maxr) ==
    /\ attempt' = att
    /\ IF att < maxr
       THEN /\ pc' = "attempting"
            /\ calls' = calls + 1
            /\ result' = result
       ELSE /\ pc' = "done"
            /\ calls' = calls
            /\ result' = PyStr(FallThroughError)

\* analyze_resume from its entry to the first external call
Begin ==
    /\ entry = "analyze_resume"
    /\ pc = "start"
    /\ LET maxr == IF args.max_retries = {}
                   THEN MAX_RETRIES
                   ELSE CHOOSE n \in args.max_retries : TRUE
       IN /\ max_retries' = maxr
          /\ IF InputTooShort(args.resume_text)
             THEN /\ pc' = "done"
                  /\ result' = PyStr(TooShortError)
                  /\ UNCHANGED <<attempt, prompt, calls>>
             ELSE LET resume_text == PySlice(args.resume_text, RESUME_TEXT_LIMIT)
                      job_description ==
                          IF PyLen(args.job_description) > 0
                          THEN PySlice(args.job_description, JOB_DESCRIPTION_LIMIT)
                          ELSE EmptyText
                  IN /\ prompt' = _create_prompt(resume_text, job_description)
                     /\ LoopHead(0, maxr)
    /\ UNCHANGED <<entry, args, response, error_msg, wait_time, sleeps, onlyTimeouts>>
    /\ UNCHANGED <<threads, reqVars, texVars>>

\* the external call of the current attempt ends with outcome o
Respond(o) ==
    /\ pc = "attempting"
    /\ response' = o
    /\ IF o.kind = "text" /\ o.text # ""
       THEN /\ pc' = "done"
            /\ result' = PyStr(_post_process_response(o.text))
            /\ onlyTimeouts' = FALSE
            /\ UNCHANGED <<error_msg, wait_time>>
       ELSE LET msg == IF o.kind = "raise" THEN o.text ELSE EmptyResponseException
            IN /\ error_msg' = msg
               /\ onlyTimeouts' = (onlyTimeouts /\ TimeoutClass(msg))
               /\ IF _should_retry(msg, attempt, max_retries)
                  THEN /\ pc' = "backoff"
                       /\ wait_time' = WaitTime(attempt)
                       /\ result' = result
                  ELSE /\ pc' = "done"
                       /\ result' = PyStr(_handle_error(msg, attempt, max_retries))
                       /\ wait_time' = wait_time
    /\ UNCHANGED <<entry, args, max_retries, attempt, prompt, calls, sleeps>>
    /\ UNCHANGED <<threads, reqVars, texVars>>

\* time.sleep(wait_time) returns and the loop continues with the next attempt
Wake ==
    /\ pc = "backoff"
    /\ sleeps' = Append(sleeps, wait_time)
    /\ LoopHead(NextIndex(attempt), max_retries)
    /\ UNCHANGED <<entry, args, max_retries, prompt, response, error_msg,
                   wait_time, onlyTimeouts>>
    /\ UNCHANGED <<threads, reqVars, texVars>>

\* _create_prompt applied to the caller's texts as they are
CreatePrompt ==
    /\ entry = "_create_prompt"
    /\ pc = "start"
    /\ prompt' = _create_prompt(args.resume_text, args.job_description)
    /\ pc' = "done"
    /\ UNCHANGED <<entry, args, max_retries, attempt, response, error_msg,
                   wait_time, result, calls, sleeps, onlyTimeouts>>
    /\ UNCHANGED <<threads, reqVars, texVars>>

Next ==
    \/ Begin
    \/ \E o \in Outcomes : Respond(o)
    \/ Wake
    \/ CreatePrompt

Spec == Init /\ [][Next]_vars

\* analyze_resume alone, every step of it eventually taken: the external call
\* returns or raises, and time.sleep returns
\* the invocations of analyze_resume on texts without padding
InitAnalyze ==
    /\ Init
    /\ entry = "analyze_resume"
    /\ args.resume_text \in {PaddedText(0, c, 0) : c \in ResumeBodyLens}
    /\ args.job_description \in {PaddedText(0, c, 0) : c \in JobBodyLens}

NextAnalyze ==
    \/ Begin
    \/ \E o \in Outcomes : Respond(o)
    \/ Wake

FairSpec == InitAnalyze /\ [][NextAnalyze]_vars /\ WF_vars(NextAnalyze)

---------------------------------------------------------------------------
(* Concurrent requests: the routes share one AIAnalyzer (ai_analyzer of    *)
(* api_routes.py), each request runs analyze_resume in a thread of its     *)
(* own; resume_text, job_description, max_retries, prompt, attempt,        *)
(* response and error_msg are locals of the call, self.model is only read. *)

\* the requests in flight together
Requests == {1, 2}

\* the outcomes of the external calls of the concurrent requests
ThreadOutcomes ==
    {[kind |-> "text", text |-> "Solid resume overall."],
     [kind |-> "none", text |-> ""],
     [kind |-> "raise", text |-> "504 timeout"],
     [kind |-> "raise", text |-> "429 Quota exceeded"],
     [kind |-> "raise", text |-> "Connection reset"]}

\* the arguments of the concurrent requests
ThreadArgs ==
    [resume_text : {PaddedText(0, 49, 0), PaddedText(0, RESUME_TEXT_LIMIT + 1, 0)},
     job_description : {EmptyText, PaddedText(0, 11, 0)},
     max_retries : {{}, {1}, {MaxRetriesArg}}]

\* the frame of one call of analyze_resume: its arguments, its position, its
\* locals, and the outcomes of the external calls it made, in order
Frame(a) ==
    [args |-> a, pc |-> "start", max_retries |-> 0, attempt |-> 0,
     prompt |-> NoPrompt, outcomes |-> << >>, waits |-> << >>, result |-> None]

\* an attempt counter kept on the instance: every request reads the most
\* advanced one
InstanceAttempt(ts, r) ==
    CHOOSE n \in {ts[q].attempt : q \in Requests} :
        \A q \in Requests : ts[q].attempt <= n

\* the loop variable `attempt` of the call of request r
LocalAttempt(ts, r) == ts[r].attempt

\* analyze_resume of request r from its entry to its first external call
ThreadBegin(r) ==
    /\ threads[r].pc = "start"
    /\ LET a == threads[r].args
           maxr == IF a.max_retries = {}
                   THEN MAX_RETRIES
                   ELSE CHOOSE n \in a.max_retries : TRUE
           resume_text == PySlice(a.resume_text, RESUME_TEXT_LIMIT)
           job_description ==
               IF PyLen(a.job_description) > 0
               THEN PySlice(a.job_description, JOB_DESCRIPTION_LIMIT)
               ELSE EmptyText
       IN threads' =
            [threads EXCEPT ![r] =
                IF InputTooShort(a.resume_text)
                THEN [@ EXCEPT !.max_retries = maxr, !.pc = "done",
                               !.result = PyStr(TooShortError)]
                ELSE IF 0 < maxr
                THEN [@ EXCEPT !.max_retries = maxr, !.pc = "attempting",
                               !.prompt = _create_prompt(resume_text, job_description)]
                ELSE [@ EXCEPT !.max_retries = maxr, !.pc = "done",
                               !.prompt = _create_prompt(resume_text, job_description),
                               !.result = PyStr(FallThroughError)]]
    /\ UNCHANGED <<entry, args, pc, max_retries, attempt, prompt, response,
                   error_msg, wait_time, result, calls, sleeps, onlyTimeouts>>
    /\ UNCHANGED <<reqVars, texVars>>

\* the external call of request r ends with outcome o
ThreadRespond(r, o) ==
    /\ threads[r].pc = "attempting"
    /\ LET t == threads[r]
           att == LocalAttempt(threads, r)
           msg == IF o.kind = "raise" THEN o.text ELSE EmptyResponseException
       IN threads' =
            [threads EXCEPT ![r] =
                IF o.kind = "text" /\ o.text # ""
                THEN [@ EXCEPT !.outcomes = Append(@, o), !.pc = "done",
                               !.result = PyStr(_post_process_response(o.text))]
                ELSE IF _should_retry(msg, att, t.max_retries)
                THEN [@ EXCEPT !.outcomes = Append(@, o), !.pc = "backoff",
                               !.waits = Append(@, WaitTime(att))]
                ELSE [@ EXCEPT !.outcomes = Append(@, o), !.pc = "done",
                               !.result = PyStr(_handle_error(msg, att, t.max_retries))]]
    /\ UNCHANGED <<entry, args, pc, max_retries, attempt, prompt, response,
                   error_msg, wait_time, result, calls, sleeps, onlyTimeouts>>
    /\ UNCHANGED <<reqVars, texVars>>

\* time.sleep of request r returns: the next attempt, or the end of the loop
ThreadWake(r) ==
    /\ threads[r].pc = "backoff"
    /\ LET att == NextIndex(LocalAttempt(threads, r)) IN
       threads' =
            [threads EXCEPT ![r] =
                IF att < threads[r].max_retries
                THEN [@ EXCEPT !.attempt = att, !.pc = "attempting"]
                ELSE [@ EXCEPT !.attempt = att, !.pc = "done",
                               !.result = PyStr(FallThroughError)]]
    /\ UNCHANGED <<entry, args, pc, max_retries, attempt, prompt, response,
                   error_msg, wait_time, result, calls, sleeps, onlyTimeouts>>
    /\ UNCHANGED <<reqVars, texVars>>

\* the requests arrive together, each with its arguments
InitThreads ==
    /\ ReqIdle
    /\ TexIdle
    /\ entry = "analyze_resume"
    /\ args = [resume_text |-> EmptyText, job_description |-> EmptyText,
               max_retries |-> {}]
    /\ pc = "idle"
    /\ max_retries = 0
    /\ attempt = 0
    /\ prompt = NoPrompt
    /\ response = NoResponse
    /\ error_msg = ""
    /\ wait_time = 0
    /\ result = None
    /\ calls = 0
    /\ sleeps = << >>
    /\ onlyTimeouts = TRUE
    /\ threads \in [Requests -> {Frame(a) : a \in ThreadArgs}]

NextThreads ==
    \E r \in Requests :
        \/ ThreadBegin(r)
        \/ \E o \in ThreadOutcomes : ThreadRespond(r, o)
        \/ ThreadWake(r)

ThreadSpec == InitThreads /\ [][NextThreads]_vars

---------------------------------------------------------------------------
(* The state machine of an upload: validate_upload, extract_text_from_pdf  *)
(* and the routes /analyze-resume and /extract-text.                       *)

\* the analyzer of the routes module, before the route calls it
AnalyzerIdle ==
    /\ entry = "analyze_resume"
    /\ args = [resume_text |-> EmptyText, job_description |-> EmptyText,
               max_retries |-> {}]
    /\ pc = "idle"
    /\ max_retries = 0
    /\ attempt = 0
    /\ prompt = NoPrompt
    /\ response = NoResponse
    /\ error_msg = ""
    /\ wait_time = 0
    /\ result = None
    /\ calls = 0
    /\ sleeps = << >>
    /\ onlyTimeouts = TRUE
    /\ threads = << >>

\* an invocation on a file, nothing done yet: the type sniffing is what
\* libmagic does on the content when the library is there
ReqInit(apps, operations, files) ==
    /\ app \in apps
    /\ call \in operations
    /\ file \in files
    /\ MAGIC_AVAILABLE \in BOOLEAN
    /\ mime_type \in MagicOutcomes(file.content) \cup {NoMime}
    /\ (mime_type = NoMime) <=> (~MAGIC_AVAILABLE \/ app = "app.py")
    /\ app = "app.py" => ~MAGIC_AVAILABLE
    /\ validation = NoValidation
    /\ pdf_reader = NoReader
    /\ page_num = 0
    /\ text = ""
    /\ extraction = NoExtraction
    /\ extract_calls = 0
    /\ readers = 0
    /\ status = 0
    /\ cursor = 0
    /\ read_sizes = << >>
    /\ exception = ""
    /\ response_body = {}

IsRoute == call \in {"/analyze-resume", "/extract-text"}

\* validate_upload(file), the one of the application serving
ValidateUpload ==
    /\ rpc = "validate"
    /\ LET f == [file EXCEPT !.content = read(file, cursor)] IN
       validation' = IF app = "src"
                     THEN validate_upload(f, MAGIC_AVAILABLE, mime_type)
                     ELSE app_validate_upload(f)
    /\ IF ReadsContent(file)
       THEN /\ read_sizes' = Append(read_sizes, read(file, cursor).n)
            /\ cursor' = seek(file.content.n, 0)
       ELSE UNCHANGED <<cursor, read_sizes>>
    /\ rpc' = "validated"
    /\ UNCHANGED <<exception, response_body>>
    /\ UNCHANGED <<app, call, file, MAGIC_AVAILABLE, mime_type, pdf_reader,
                   page_num, text, extraction, extract_calls, readers, status>>
    /\ UNCHANGED <<aiVars, texVars>>

\* the early returns of extract_text_from_pdf left out
OpenReaderUnchecked ==
    /\ rpc = "extract"
    /\ read_sizes' = Append(read_sizes, read(file, cursor).n)
    /\ cursor' = seek(file.content.n, 0)
    /\ readers' = readers + 1
    /\ pdf_reader' = read(file, cursor).pdf
    /\ text' = ""
    /\ page_num' = 0
    /\ IF read(file, cursor).pdf.kind = "raise"
       THEN /\ extraction' = ExtractionFailure(read(file, cursor).pdf.msg)
            /\ rpc' = "extracted"
       ELSE /\ extraction' = extraction
            /\ rpc' = "pages"
    /\ UNCHANGED <<exception, response_body>>
    /\ UNCHANGED <<app, call, file, MAGIC_AVAILABLE, mime_type, validation,
                   extract_calls, status>>
    /\ UNCHANGED <<aiVars, texVars>>

\* extract_text_from_pdf from its entry to the loop over the pages: the
\* content is read, the reader is made, the encryption flag and the number
\* of pages are looked at
OpenReader ==
    /\ rpc = "extract"
    /\ read_sizes' = Append(read_sizes, read(file, cursor).n)
    /\ cursor' = seek(file.content.n, 0)
    /\ readers' = readers + 1
    /\ pdf_reader' = read(file, cursor).pdf
    /\ text' = ""
    /\ page_num' = 0
    /\ IF read(file, cursor).pdf.kind = "raise"
       THEN /\ extraction' = ExtractionFailure(read(file, cursor).pdf.msg)
            /\ rpc' = "extracted"
       ELSE IF read(file, cursor).pdf.is_encrypted
       THEN /\ extraction' = Extraction(FALSE, EncryptedError)
            /\ rpc' = "extracted"
       ELSE IF Len(read(file, cursor).pdf.pages) = 0
       THEN /\ extraction' = Extraction(FALSE, EmptyPdfError)
            /\ rpc' = "extracted"
       ELSE /\ extraction' = extraction
            /\ rpc' = "pages"
    /\ UNCHANGED <<exception, response_body>>
    /\ UNCHANGED <<app, call, file, MAGIC_AVAILABLE, mime_type, validation,
                   extract_calls, status>>
    /\ UNCHANGED <<aiVars, texVars>>

\* an iteration of the loop in which a page that raises ends the extraction
ExtractPageAborting ==
    /\ rpc = "pages"
    /\ page_num < Len(pdf_reader.pages)
    /\ extract_calls' = extract_calls + 1
    /\ LET page == pdf_reader.pages[page_num + 1] IN
       IF page.kind = "raise"
       THEN /\ extraction' = ExtractionFailure("page")
            /\ rpc' = "extracted"
            /\ text' = text
       ELSE /\ text' = IF page.text # "" THEN text \o page.text \o "\n" ELSE text
            /\ UNCHANGED <<extraction, rpc>>
    /\ page_num' = page_num + 1
    /\ UNCHANGED <<exception, response_body, cursor, read_sizes>>
    /\ UNCHANGED <<app, call, file, MAGIC_AVAILABLE, mime_type, validation,
                   pdf_reader, readers, status>>
    /\ UNCHANGED <<aiVars, texVars>>

\* one iteration of the loop: page.extract_text() of the next page
ExtractPage ==
    /\ rpc = "pages"
    /\ page_num < Len(pdf_reader.pages)
    /\ extract_calls' = extract_calls + 1
    /\ LET page == pdf_reader.pages[page_num + 1] IN
       text' = IF page.kind = "text" /\ page.text # ""
               THEN text \o page.text \o "\n"
               ELSE text
    /\ page_num' = page_num + 1
    /\ UNCHANGED <<exception, response_body, cursor, read_sizes>>
    /\ UNCHANGED <<app, call, file, MAGIC_AVAILABLE, mime_type, rpc, validation,
                   pdf_reader, extraction, readers, status>>
    /\ UNCHANGED <<aiVars, texVars>>

\* after the last page: the text is validated, classified and cleaned
FinishExtract ==
    /\ rpc = "pages"
    /\ page_num = Len(pdf_reader.pages)
    /\ extraction' = ExtractionOf(text)
    /\ rpc' = "extracted"
    /\ UNCHANGED <<exception, response_body, cursor, read_sizes>>
    /\ UNCHANGED <<app, call, file, MAGIC_AVAILABLE, mime_type, validation,
                   pdf_reader, page_num, text, extract_calls, readers, status>>
    /\ UNCHANGED <<aiVars, texVars>>

\* the route takes the file of the request: `'resume' not in request.files`
Receive ==
    /\ rpc = "received"
    /\ IF ~file.present
       THEN status' = 400 /\ rpc' = "responded"
       ELSE status' = status /\ rpc' = "validate"
    /\ UNCHANGED <<exception, response_body, cursor, read_sizes>>
    /\ UNCHANGED <<app, call, file, MAGIC_AVAILABLE, mime_type, validation,
                   pdf_reader, page_num, text, extraction, extract_calls, readers>>
    /\ UNCHANGED <<aiVars, texVars>>

\* a route that goes on to the extraction whatever validate_upload returned
AfterValidateUnchecked ==
    /\ IsRoute
    /\ rpc = "validated"
    /\ status' = status
    /\ rpc' = "extract"
    /\ UNCHANGED <<exception, response_body, cursor, read_sizes>>
    /\ UNCHANGED <<app, call, file, MAGIC_AVAILABLE, mime_type, validation,
                   pdf_reader, page_num, text, extraction, extract_calls, readers>>
    /\ UNCHANGED <<aiVars, texVars>>

\* the route after validate_upload: a rejected upload is answered 400
AfterValidate ==
    /\ IsRoute
    /\ rpc = "validated"
    /\ IF ~validation.accepted
       THEN status' = 400 /\ rpc' = "responded"
       ELSE status' = status /\ rpc' = "extract"
    /\ UNCHANGED <<exception, response_body, cursor, read_sizes>>
    /\ UNCHANGED <<app, call, file, MAGIC_AVAILABLE, mime_type, validation,
                   pdf_reader, page_num, text, extraction, extract_calls, readers>>
    /\ UNCHANGED <<aiVars, texVars>>

\* the status the route gives a failed extraction
ExtractionFailedStatus(application, route) ==
    IF application = "src" /\ route = "/extract-text" THEN 500 ELSE 400

\* the route after extract_text_from_pdf: a failure is answered; /extract-text
\* answers the text; /analyze-resume calls ai_analyzer.analyze_resume with the
\* text and the trimmed job_description of the form
AfterExtract(job_description) ==
    /\ IsRoute
    /\ rpc = "extracted"
    /\ IF ~extraction.success
       THEN /\ status' = ExtractionFailedStatus(app, call)
            /\ rpc' = "responded"
            /\ UNCHANGED <<args, pc>>
       ELSE IF call = "/extract-text"
       THEN /\ status' = 200
            /\ rpc' = "responded"
            /\ UNCHANGED <<args, pc>>
       ELSE /\ args' = [resume_text |-> RunsOf(extraction.result),
                        job_description |-> PyStrip(job_description),
                        max_retries |-> {}]
            /\ pc' = "start"
            /\ rpc' = "analyzing"
            /\ status' = status
    /\ UNCHANGED <<exception, response_body, cursor, read_sizes>>
    /\ UNCHANGED <<app, call, file, MAGIC_AVAILABLE, mime_type, validation,
                   pdf_reader, page_num, text, extraction, extract_calls, readers>>
    /\ UNCHANGED <<entry, max_retries, attempt, prompt, response, error_msg,
                   wait_time, result, calls, sleeps, onlyTimeouts, threads>>
    /\ UNCHANGED texVars

\* the status /analyze-resume gives the value analyze_resume returned
AnalysisStatus(analysis_result) ==
    IF StrStartsWith(analysis_result, "Error:") THEN 500 ELSE 200

\* the route after analyze_resume returned
Answer ==
    /\ rpc = "analyzing"
    /\ pc = "done"
    /\ status' = AnalysisStatus(result.value)
    /\ rpc' = "responded"
    /\ UNCHANGED <<exception, response_body, cursor, read_sizes>>
    /\ UNCHANGED <<app, call, file, MAGIC_AVAILABLE, mime_type, validation,
                   pdf_reader, page_num, text, extraction, extract_calls, readers>>
    /\ UNCHANGED <<aiVars, texVars>>

\* validate_upload called on a file, in either application
InitUpload ==
    /\ AnalyzerIdle
    /\ TexIdle
    /\ ReqInit({"src", "app.py"}, {"validate_upload"}, UploadFiles)
    /\ rpc = "validate"

NextUpload == ValidateUpload

UploadSpec == InitUpload /\ [][NextUpload]_vars

\* extract_text_from_pdf called on a file
InitExtract ==
    /\ AnalyzerIdle
    /\ TexIdle
    /\ ReqInit({"src"}, {"extract_text_from_pdf"}, PdfFiles)
    /\ ~MAGIC_AVAILABLE
    /\ rpc = "extract"

NextExtract ==
    \/ OpenReader
    \/ ExtractPage
    \/ FinishExtract

ExtractSpec == InitExtract /\ [][NextExtract]_vars

\* a request to /analyze-resume or /extract-text of the package under src/,
\* or to /extract-text of app.py
InitRoute ==
    /\ AnalyzerIdle
    /\ TexIdle
    /\ ReqInit({"src", "app.py"}, {"/analyze-resume", "/extract-text"}, RouteFiles)
    /\ app = "app.py" => call = "/extract-text"
    /\ rpc = "received"

NextRoute ==
    \/ Receive
    \/ ValidateUpload
    \/ AfterValidate
    \/ OpenReader
    \/ ExtractPage
    \/ FinishExtract
    \/ \E job_description \in FormJobDescriptions : AfterExtract(job_description)
    \/ Begin
    \/ \E o \in Outcomes : Respond(o)
    \/ Wake
    \/ Answer

RouteSpec == InitRoute /\ [][NextRoute]_vars

\* the callers of analyze_resume: a request to a route, or a direct
\* invocation with a max_retries argument
InitCaller == InitRoute \/ InitAnalyze

CallerSpec == InitCaller /\ [][NextRoute]_vars

---------------------------------------------------------------------------
(* The state machine of the document compiler: compile_to_pdf and          *)
(* validate_latex of one LaTeXService, call after call.                    *)

\* compile_to_pdf without the validation
EarlyReturnUnvalidated(available, code) ==
    IF ~available
    THEN Compiled(FALSE, CompilerUnavailableError)
    ELSE NoCompilation

\* the returns of compile_to_pdf before the working directory is made: the
\* value returned, NoCompilation when the compilation goes on
EarlyReturn(available, code) ==
    IF ~available
    THEN Compiled(FALSE, CompilerUnavailableError)
    ELSE IF ~validate_latex(code).is_valid
    THEN Compiled(FALSE, ValidationFailedError(validate_latex(code).errors))
    ELSE NoCompilation

\* compile_to_pdf from its entry to tempfile.mkdtemp()
Compile ==
    /\ lpc = "compile_to_pdf"
    /\ IF EarlyReturn(latex_available, latex_code) # NoCompilation
       THEN /\ compiled' = EarlyReturn(latex_available, latex_code)
            /\ lpc' = "done"
            /\ UNCHANGED <<temp_dirs, temp_dir, made_dirs>>
       ELSE /\ made_dirs' = made_dirs + 1
            /\ temp_dir' = made_dirs + 1
            /\ temp_dirs' = temp_dirs \cup {made_dirs + 1}
            /\ lpc' = "write"
            /\ compiled' = compiled
    /\ UNCHANGED <<resume, template_name>>
    /\ UNCHANGED <<latex_available, latex_code, runs, file_io, run_results, workdir>>
    /\ UNCHANGED <<aiVars, reqVars>>

\* the source is written to resume.tex; an exception ends the call
WriteSource(o) ==
    /\ lpc = "write"
    /\ file_io' = file_io + 1
    /\ IF o = "raise"
       THEN /\ compiled' = Compiled(FALSE, WriteError)
            /\ temp_dirs' = rmtree(temp_dirs, temp_dir)
            /\ lpc' = "done"
       ELSE /\ lpc' = "run"
            /\ UNCHANGED <<compiled, temp_dirs>>
    /\ UNCHANGED <<resume, template_name>>
    /\ UNCHANGED <<latex_available, latex_code, temp_dir, made_dirs, runs,
                   run_results, workdir>>
    /\ UNCHANGED <<aiVars, reqVars>>

\* a run of pdflatex whose timeout is taken for an exit
RunCompilerPastTimeout(o) ==
    /\ lpc = "run"
    /\ runs < COMPILER_PASSES
    /\ runs' = runs + 1
    /\ IF o = "raise"
       THEN /\ compiled' = Compiled(FALSE, RunError)
            /\ temp_dirs' = rmtree(temp_dirs, temp_dir)
            /\ lpc' = "done"
            /\ run_results' = Append(run_results, o)
       ELSE /\ lpc' = IF runs + 1 = COMPILER_PASSES THEN "read" ELSE "run"
            /\ run_results' = Append(run_results, o)
            /\ UNCHANGED <<compiled, temp_dirs>>
    /\ UNCHANGED <<resume, template_name>>
    /\ UNCHANGED <<latex_available, latex_code, temp_dir, made_dirs, file_io, workdir>>
    /\ UNCHANGED <<aiVars, reqVars>>

\* one subprocess.run of pdflatex, of the two: it exits with a return code
\* that is kept in `result` and never read, exceeds timeout=60, or raises
RunCompiler(o) ==
    /\ lpc = "run"
    /\ runs < COMPILER_PASSES
    /\ runs' = runs + 1
    /\ IF o = "timeout"
       THEN /\ compiled' = Compiled(FALSE, CompilationTimedOutError)
            /\ temp_dirs' = rmtree(temp_dirs, temp_dir)
            /\ lpc' = "done"
            /\ run_results' = Append(run_results, o)
       ELSE IF o = "raise"
       THEN /\ compiled' = Compiled(FALSE, RunError)
            /\ temp_dirs' = rmtree(temp_dirs, temp_dir)
            /\ lpc' = "done"
            /\ run_results' = Append(run_results, o)
       ELSE /\ lpc' = IF runs + 1 = COMPILER_PASSES THEN "read" ELSE "run"
            /\ run_results' = Append(run_results, o)
            /\ UNCHANGED <<compiled, temp_dirs>>
    /\ UNCHANGED <<resume, template_name>>
    /\ UNCHANGED <<latex_available, latex_code, temp_dir, made_dirs, file_io, workdir>>
    /\ UNCHANGED <<aiVars, reqVars>>

\* the value returned for what the runs left in the working directory
OutputResult(o) ==
    IF o = "pdf" THEN Compiled(TRUE, PdfContent)
    ELSE IF o \in {"pdf unreadable", "log unreadable"} THEN Compiled(FALSE, ReadError)
    ELSE IF o = "log with error" THEN Compiled(FALSE, LogError)
    ELSE Compiled(FALSE, CompilationFailedError)

\* the end of a compilation that takes a return code other than 0 for a failure
ReadOutputByReturnCode(o) ==
    /\ lpc = "read"
    /\ file_io' = IF o = "no log" THEN file_io ELSE file_io + 1
    /\ workdir' = o
    /\ compiled' =
        IF \E i \in 1..Len(run_results) : run_results[i] # "exit 0"
        THEN Compiled(FALSE, CompilationFailedError)
        ELSE OutputResult(o)
    /\ temp_dirs' = rmtree(temp_dirs, temp_dir)
    /\ lpc' = "done"
    /\ UNCHANGED <<resume, template_name>>
    /\ UNCHANGED <<latex_available, latex_code, temp_dir, made_dirs, runs, run_results>>
    /\ UNCHANGED <<aiVars, reqVars>>

\* after the runs: resume.pdf is read if it exists, or else the first error
\* line of resume.log is taken; the working directory is removed in every case
ReadOutput(o) ==
    /\ lpc = "read"
    /\ file_io' = IF o = "no log" THEN file_io ELSE file_io + 1
    /\ workdir' = o
    /\ compiled' = OutputResult(o)
    /\ temp_dirs' = rmtree(temp_dirs, temp_dir)
    /\ lpc' = "done"
    /\ UNCHANGED <<resume, template_name>>
    /\ UNCHANGED <<latex_available, latex_code, temp_dir, made_dirs, runs, run_results>>
    /\ UNCHANGED <<aiVars, reqVars>>

\* validate_latex called on a source
ValidateLatex ==
    /\ lpc = "validate_latex"
    /\ compiled' = Validated(validate_latex(latex_code))
    /\ lpc' = "done"
    /\ UNCHANGED <<resume, template_name>>
    /\ UNCHANGED <<latex_available, latex_code, temp_dirs, temp_dir, made_dirs,
                   runs, file_io, run_results, workdir>>
    /\ UNCHANGED <<aiVars, reqVars>>

\* the next call on the same service
NextCall(operation, code) ==
    /\ lpc = "done"
    /\ made_dirs < MaxCompiles
    /\ lpc' = operation
    /\ latex_code' = code
    /\ temp_dir' = 0
    /\ runs' = 0
    /\ file_io' = 0
    /\ run_results' = << >>
    /\ workdir' = ""
    /\ compiled' = NoCompilation
    /\ UNCHANGED <<resume, template_name>>
    /\ UNCHANGED <<latex_available, temp_dirs, made_dirs>>
    /\ UNCHANGED <<aiVars, reqVars>>

LatexOperations == {"compile_to_pdf", "validate_latex"}

\* a service after its construction, with its first call
InitLatex ==
    /\ AnalyzerIdle
    /\ ReqIdle
    /\ latex_available \in BOOLEAN
    /\ latex_code \in LatexSources
    /\ lpc \in LatexOperations
    /\ temp_dirs = {}
    /\ temp_dir = 0
    /\ made_dirs = 0
    /\ runs = 0
    /\ file_io = 0
    /\ run_results = << >>
    /\ workdir = ""
    /\ compiled = NoCompilation
    /\ resume = EmptyResumeData
    /\ template_name = "modern"

NextLatex ==
    \/ Compile
    \/ \E o \in WriteOutcomes : WriteSource(o)
    \/ \E o \in RunOutcomes : RunCompiler(o)
    \/ \E o \in OutputOutcomes : ReadOutput(o)
    \/ ValidateLatex
    \/ \E operation \in LatexOperations, code \in LatexSources :
           NextCall(operation, code)

LatexSpec == InitLatex /\ [][NextLatex]_vars

---------------------------------------------------------------------------
(* generate_latex_from_data followed by validate_latex: a caller has the   *)
(* service generate the source of a resume and validate what it generated. *)

\* the longest list of a ResumeData
MaxItems == 1

\* the names of the resumes
NameTexts ==
    {"", "Ada Lovelace", "Ada {Byron} Lovelace", "Ada \\ Lovelace",
     "Ada {Lovelace", "Ada Lovelace}"}

\* the texts of the escaped fields of the resumes
FieldTexts ==
    {"", "Notes on the Analytical Engine", "R&D_1: 100% of C:\\notes {v2} ~ x^2"}

\* the texts of the fields the modern template embeds as they are
LinkTexts == {"", "ada@example.com", "ada{1815@example.com"}

\* n times the item
Repeat(item, n) == [i \in 1..n |-> item]

\* a resume with the name, with the text in its escaped fields, with the link
\* in its e-mail address and profile, and with n items in each list
ResumeOf(name, t, link, n) ==
    ResumeData(
        [name |-> name, email |-> link, location |-> t, linkedin |-> link,
         summary |-> t,
         experience |->
             Repeat([title |-> t, company |-> "Analytical Engines Ltd",
                     location |-> "London", dates |-> "1842--1843",
                     responsibilities |-> << t >>], n),
         education |->
             Repeat([degree |-> t, institution |-> "University of London",
                     dates |-> "1841", gpa |-> "3.9"], n),
         skills |-> Repeat(t, n),
         projects |->
             Repeat([name |-> t, description |-> t,
                     technologies |-> << t >>], n),
         certifications |-> Repeat(t, n)])

ResumeDatas ==
    {ResumeOf(name, t, link, n) :
        name \in NameTexts, t \in FieldTexts, link \in LinkTexts,
        n \in 0..MaxItems}

\* generate_latex_from_data(resume, template_name) returns the source
GenerateLatex ==
    /\ lpc = "generate_latex_from_data"
    /\ latex_code' = generate_latex_from_data(resume, template_name)
    /\ lpc' = "validate_latex"
    /\ UNCHANGED <<resume, template_name>>
    /\ UNCHANGED <<latex_available, temp_dirs, temp_dir, made_dirs, runs,
                   file_io, run_results, workdir, compiled>>
    /\ UNCHANGED <<aiVars, reqVars>>

\* a service after its construction, with the resume and the template of the
\* call
InitGenerate ==
    /\ AnalyzerIdle
    /\ ReqIdle
    /\ latex_available \in BOOLEAN
    /\ latex_code = ""
    /\ lpc = "generate_latex_from_data"
    /\ temp_dirs = {}
    /\ temp_dir = 0
    /\ made_dirs = 0
    /\ runs = 0
    /\ file_io = 0
    /\ run_results = << >>
    /\ workdir = ""
    /\ compiled = NoCompilation
    /\ resume \in ResumeDatas
    /\ template_name \in TEMPLATES

NextGenerate ==
    \/ GenerateLatex
    \/ ValidateLatex

GenerateSpec == InitGenerate /\ [][NextGenerate]_vars

---------------------------------------------------------------------------
(* The request boundary: the `except Exception` clause of each route, and  *)
(* the routes /validate and /compile of the LaTeX blueprint.               *)

LatexEndpoints == {"/latex/validate", "/latex/compile"}

\* str(e) of the exceptions raised in the body of a route: a stream that
\* cannot be read, a latex_code that is no str, a body that is no JSON
ExceptionTexts ==
    {"[Errno 5] Input/output error",
     "argument of type 'int' is not iterable",
     "415 Unsupported Media Type: Did not attempt to load JSON data because the request Content-Type was not 'application/json'."}

\* a JSON object as the set of its keys with their values
Json(key, value) == [key |-> key, value |-> value]

\* the 500 handler of the application, reached when the clause of the route
\* raises itself: `logger` is no name of api_routes.py
InternalErrorBody ==
    {Json("error", "InternalServerError"),
     Json("message", "An unexpected error occurred")}

\* the body the route answers an exception e with, DEBUG not set
ExceptionBody(application, route, e) ==
    IF route \in LatexEndpoints
    THEN {Json("error", e)}
    ELSE IF application = "app.py"
    THEN {Json("success", "false"),
          Json("error", "Failed to extract text from PDF. Please ensure the file is not corrupted."),
          Json("details", "null")}
    ELSE IF route = "/analyze-resume"
    THEN {Json("error", "Internal server error"),
          Json("message", "An unexpected error occurred while processing your resume"),
          Json("details", "Please try again later or contact support")}
    ELSE InternalErrorBody

\* the code of the route itself is running: an exception raised in
\* extract_text_from_pdf or analyze_resume is caught there
InRouteCode ==
    \/ rpc \in {"received", "validate", "validated", "extracted"}
    \/ rpc = "analyzing" /\ pc = "done"
    \/ rpc = "serving" /\ lpc = "done"

\* the body of the route raises an exception whose text is e
Raise(e) ==
    /\ InRouteCode
    /\ exception' = e
    /\ rpc' = "raised"
    /\ UNCHANGED <<response_body, cursor, read_sizes, app, call, file, MAGIC_AVAILABLE,
                   mime_type, validation, pdf_reader, page_num, text,
                   extraction, extract_calls, readers, status>>
    /\ UNCHANGED <<aiVars, texVars>>

\* `except Exception as e` of the route: the response
Catch ==
    /\ rpc = "raised"
    /\ response_body' = ExceptionBody(app, call, exception)
    /\ status' = 500
    /\ rpc' = "responded"
    /\ UNCHANGED <<exception, cursor, read_sizes, app, call, file,
                   MAGIC_AVAILABLE, mime_type, validation, pdf_reader, page_num,
                   text, extraction, extract_calls, readers>>
    /\ UNCHANGED <<aiVars, texVars>>

\* /latex/validate and /latex/compile from the entry to the call of the service
LatexServe ==
    /\ call \in LatexEndpoints
    /\ rpc = "received"
    /\ lpc' = IF call = "/latex/compile" THEN "compile_to_pdf" ELSE "validate_latex"
    /\ rpc' = "serving"
    /\ UNCHANGED <<exception, response_body, cursor, read_sizes, app, call, file,
                   MAGIC_AVAILABLE, mime_type, validation, pdf_reader, page_num,
                   text, extraction, extract_calls, readers, status>>
    /\ UNCHANGED <<resume, template_name>>
    /\ UNCHANGED <<latex_available, latex_code, temp_dirs, temp_dir, made_dirs,
                   runs, file_io, run_results, workdir, compiled>>
    /\ UNCHANGED aiVars

\* the status the LaTeX route gives the value the service returned
LatexStatus(returned) ==
    IF returned.of = "compile_to_pdf" /\ ~returned.success THEN 400 ELSE 200

\* the LaTeX route after the service returned
LatexAnswer ==
    /\ rpc = "serving"
    /\ lpc = "done"
    /\ status' = LatexStatus(compiled)
    /\ rpc' = "responded"
    /\ UNCHANGED <<exception, response_body, cursor, read_sizes, app, call, file,
                   MAGIC_AVAILABLE, mime_type, validation, pdf_reader, page_num,
                   text, extraction, extract_calls, readers>>
    /\ UNCHANGED <<aiVars, texVars>>

\* a request to a route of the API, or to a route of the LaTeX blueprint
InitBoundary ==
    \/ InitRoute
    \/ /\ AnalyzerIdle
       /\ ReqInit({"src"}, LatexEndpoints, {NoFile})
       /\ ~MAGIC_AVAILABLE
       /\ rpc = "received"
       /\ latex_available \in BOOLEAN
       /\ latex_code \in LatexSources
       /\ lpc = "idle"
       /\ temp_dirs = {}
       /\ temp_dir = 0
       /\ made_dirs = 0
       /\ runs = 0
       /\ file_io = 0
       /\ run_results = << >>
       /\ workdir = ""
       /\ compiled = NoCompilation
       /\ resume = EmptyResumeData
       /\ template_name = "modern"

NextBoundary ==
    \/ NextRoute
    \/ \E e \in ExceptionTexts : Raise(e)
    \/ Catch
    \/ LatexServe
    \/ Compile
    \/ \E o \in WriteOutcomes : WriteSource(o)
    \/ \E o \in RunOutcomes : RunCompiler(o)
    \/ \E o \in OutputOutcomes : ReadOutput(o)
    \/ ValidateLatex
    \/ LatexAnswer

BoundarySpec == InitBoundary /\ [][NextBoundary]_vars

---------------------------------------------------------------------------
(* Properties of analyze_resume.                                           *)

\* the max_retries of the invocation: the argument, or the configured default
RequestedRetries ==
    IF args.max_retries = {} THEN MAX_RETRIES ELSE CHOOSE n \in args.max_retries : TRUE

\* the latest external call failed: it raised, or returned no text
Failed == response.kind \in {"raise", "none"} \/ (response.kind = "text" /\ response.text = "")

\* the error text of the latest failed call
FailureText == IF response.kind = "raise" THEN response.text ELSE EmptyResponseException

Has(keyword) == StrContains(keyword, StrLower(FailureText))

RECURSIVE SumSeq(_)
SumSeq(q) == IF q = << >> THEN 0 ELSE Head(q) + SumSeq(Tail(q))

\* C1: whatever the outcomes of the external calls, one invocation of
\* analyze_resume makes at most max_retries calls to the external model.
C1_AtMostMaxRetriesCalls ==
    entry = "analyze_resume" => calls <= RequestedRetries

\* three calls were made, the last one failed, and three were allowed
C1_Witness ==
    /\ pc = "done"
    /\ calls = 3
    /\ RequestedRetries = 3
    /\ Failed

\* C2: when every external call fails with a timeout-class error, exactly
\* max_retries calls are made, the wait after the failed call of index i is
\* (i + 1) * 2 seconds with no wait after the last call, and the result is
\* the high-demand error; with max_retries = 3, 3 calls and 2 + 4 = 6 seconds.
C2_TimeoutBackoff ==
    (entry = "analyze_resume" /\ pc = "done" /\ calls >= 1 /\ onlyTimeouts) =>
        /\ calls = max_retries
        /\ Len(sleeps) = calls - 1
        /\ \A i \in 1..Len(sleeps) : sleeps[i] = ((i - 1) + 1) * 2
        /\ result = PyStr(HighDemandError)
        /\ max_retries = 3 => (calls = 3 /\ sleeps = <<2, 4>> /\ SumSeq(sleeps) = 6)

\* "504 timeout" three times with the default max_retries
C2_Witness ==
    /\ pc = "done"
    /\ onlyTimeouts
    /\ args.max_retries = {}
    /\ response = [kind |-> "raise", text |-> "504 timeout"]
    /\ calls = 3
    /\ SumSeq(sleeps) = 6

\* the steps of the retry loop: from Attempting(n) to Done or, with attempts
\* remaining and a failed call, to Backoff; from Backoff to Attempting(n + 1);
\* Done is final
RetryLoopStep ==
    /\ pc = "attempting" =>
        \/ pc' = "done" /\ result'.type = "str"
        \/ /\ pc' = "backoff"
           /\ attempt' = attempt
           /\ attempt + 1 < max_retries
           /\ response'.kind \in {"raise", "none"} \/ response'.text = ""
    /\ pc = "backoff" => (pc' = "attempting" /\ attempt' = attempt + 1)
    /\ pc = "done" => (pc' = "done" /\ result' = result)

\* C3: the retry loop terminates: every execution reaches Done, through the
\* steps Attempting -> Done, Attempting -> Backoff -> Attempting(n + 1), and
\* never leaves Done.
C3_RetryLoopTerminates ==
    /\ <>(pc = "done")
    /\ [][RetryLoopStep]_vars

\* an invocation that ended after two backoffs
C3_Witness ==
    /\ entry = "analyze_resume"
    /\ pc = "done"
    /\ Len(sleeps) = 2
    /\ attempt = 2

\* C4: a resume_text that is empty or whose trimmed length is under 50 is
\* rejected with the too-short error at once: no external call, no wait.
C4_TooShortRejected ==
    (/\ entry = "analyze_resume"
     /\ pc # "start"
     /\ (PyLen(args.resume_text) = 0 \/ PyLen(PyStrip(args.resume_text)) < 50)) =>
        /\ pc = "done"
        /\ result = PyStr(TooShortError)
        /\ calls = 0
        /\ sleeps = << >>

\* 49 characters between whitespace: 50 or more in all, under 50 trimmed
C4_Witness ==
    /\ entry = "analyze_resume"
    /\ pc = "done"
    /\ PyLen(args.resume_text) >= 50
    /\ PyLen(PyStrip(args.resume_text)) = 49
    /\ result = PyStr(TooShortError)

\* the text of the latest failure holds one of the keywords that are retried
HasRetryKeyword ==
    Has("504") \/ Has("timeout") \/ Has("deadline") \/ Has("resourceexhausted")
        \/ Has("quota")

\* the text of the latest failure holds a keyword the classification knows
HasKnownKeyword ==
    HasRetryKeyword \/ Has("limit") \/ (Has("api") /\ Has("key"))

\* C5 as stated: a failure whose text contains both "api" and "key" is never
\* retried, whatever else the text contains, and gives the configuration error.
C5_ApiKeyAlwaysTerminal ==
    (Failed /\ Has("api") /\ Has("key")) =>
        (pc = "done" /\ result = PyStr(ConfigurationError))

\* C5 as the code has it: a failure whose text contains both "api" and "key"
\* is never retried when the text holds none of the retried keywords, and is
\* retried like any other when it holds one; it gives the configuration error
\* unless "quota" or "limit" is in the text, which give the quota error.
C5_ApiKeyTerminalUnlessRetryKeyword ==
    (Failed /\ Has("api") /\ Has("key")) =>
        /\ ~HasRetryKeyword => pc = "done"
        /\ (HasRetryKeyword /\ pc = "done") => attempt = max_retries - 1
        /\ pc = "done" =>
            result = PyStr(IF Has("quota") \/ Has("limit")
                           THEN QuotaError ELSE ConfigurationError)

\* "API key not valid" on the first of three attempts ends the invocation
C5_Witness ==
    /\ pc = "done"
    /\ response = [kind |-> "raise", text |-> "API key not valid"]
    /\ attempt = 0
    /\ max_retries = 3
    /\ result = PyStr(ConfigurationError)

C7_QuotaOrLimitRetried ==
    (Failed /\ (Has("quota") \/ Has("limit")) /\ pc = "done") =>
        (attempt >= max_retries - 1 /\ result = PyStr(QuotaError))

\* C7 as the code has it: "quota" is retried while attempts remain; "limit"
\* without a retried keyword is not retried at all; in both cases the result,
\* once the invocation ends, is the quota error.
C7_QuotaRetriedLimitTerminal ==
    /\ (Failed /\ Has("quota") /\ pc = "done") => attempt = max_retries - 1
    /\ (Failed /\ Has("limit") /\ ~HasRetryKeyword) => pc = "done"
    /\ (Failed /\ (Has("quota") \/ Has("limit")) /\ pc = "done") =>
        result = PyStr(QuotaError)

\* "Rate limit reached" on the first of three attempts ends the invocation
C7_Witness ==
    /\ pc = "done"
    /\ response = [kind |-> "raise", text |-> "Rate limit reached"]
    /\ attempt = 0
    /\ max_retries = 3
    /\ result = PyStr(QuotaError)

\* the reply is free text: it has a text and no JSON object in it
FreeTextReply ==
    /\ response.kind = "text"
    /\ StrStrip(response.text) # ""
    /\ ~StrContains("{", response.text)

\* C8: when the external call succeeds with a non-JSON free-text reply, the
\* result is the degraded-success record with ats_score 0 and the one
\* improvement tip "Could not parse specific improvements.".
C8_DegradedSuccess ==
    (entry = "analyze_resume" /\ pc = "done" /\ FreeTextReply) =>
        /\ result.type = "dict"
        /\ result.value.ats_score = 0
        /\ result.value.improvement_tips = <<"Could not parse specific improvements.">>

\* C9 as stated: the prompt builder itself truncates: whatever texts it is
\* given, the prompt embeds at most 4000 characters of resume_text and at
\* most 1500 of job_description.
C9_BuilderTruncates ==
    /\ PyLen(prompt.resume_text) <= RESUME_TEXT_LIMIT
    /\ PyLen(prompt.job_description) <= JOB_DESCRIPTION_LIMIT

\* C9 as the code has it: analyze_resume truncates before it calls the
\* builder, so every prompt it sends embeds at most 4000 characters of
\* resume_text (its first 4000) and at most 1500 of job_description; the
\* builder embeds the resume_text it is given as it is.
C9_AnalyzeTruncatesBeforeBuilding ==
    /\ (entry = "analyze_resume" /\ pc \in {"attempting", "backoff"}) =>
        /\ PyLen(prompt.resume_text) <= RESUME_TEXT_LIMIT
        /\ PyLen(prompt.job_description) <= JOB_DESCRIPTION_LIMIT
        /\ PyLen(prompt.resume_text) =
            (IF PyLen(args.resume_text) <= RESUME_TEXT_LIMIT
             THEN PyLen(args.resume_text) ELSE RESUME_TEXT_LIMIT)
    /\ (entry = "_create_prompt" /\ pc = "done") =>
        prompt.resume_text = args.resume_text

\* a call in flight whose prompt was cut from longer texts
C9_Witness ==
    /\ entry = "analyze_resume"
    /\ pc = "attempting"
    /\ PyLen(args.resume_text) > RESUME_TEXT_LIMIT
    /\ PyLen(prompt.resume_text) = RESUME_TEXT_LIMIT
    /\ PyLen(args.job_description) > JOB_DESCRIPTION_LIMIT
    /\ PyLen(prompt.job_description) = JOB_DESCRIPTION_LIMIT

\* the job_description the builder is called with
BuilderJobDescription ==
    IF entry = "_create_prompt"
    THEN args.job_description
    ELSE IF PyLen(args.job_description) > 0
         THEN PySlice(args.job_description, JOB_DESCRIPTION_LIMIT)
         ELSE EmptyText

\* C10: the builder selects the job-matching template exactly when the
\* trimmed job_description is longer than 10 characters, and the general
\* template in every other case.
C10_TemplateSelection ==
    prompt # NoPrompt =>
        /\ prompt.template \in {"job_matching", "general"}
        /\ prompt.template = "job_matching" <=>
            PyLen(PyStrip(BuilderJobDescription)) > 10

\* 10 characters between whitespace: more than 10 in all, the general template
C10_Witness ==
    /\ entry = "_create_prompt"
    /\ pc = "done"
    /\ PyLen(args.job_description) > 10
    /\ PyLen(PyStrip(args.job_description)) = 10
    /\ prompt.template = "general"

---------------------------------------------------------------------------
(* Properties of validate_upload.                                          *)

\* the text after the last dot of each filename, "(no dot)" when it has none
ExtensionOf ==
    ("resume.pdf" :> "pdf") @@ ("resume.PDF" :> "PDF") @@ ("cv.v2.Pdf" :> "Pdf")
        @@ (".pdf" :> "pdf") @@ ("resume.pdf.exe" :> "exe") @@ ("resume.pdf." :> "")
        @@ ("resume" :> "(no dot)") @@ ("pdf" :> "(no dot)") @@ ("" :> "(no dot)")
        @@ ("resume.txt" :> "txt")

\* the spellings of pdf that occur
PdfSpellings == {"pdf", "PDF", "Pdf"}

\* the checks of the upload in hand, each by itself
NoFilePresent == ~file.present
EmptyFilename == file.filename = ""
WrongExtension == ExtensionOf[file.filename] \notin PdfSpellings
TooLarge == file.content.n > 16 * 1024 * 1024
TypeCheckFailed == ~validate_file_type(file.content, MAGIC_AVAILABLE, mime_type)

\* validate_upload of the package under src/ has returned
UploadValidated == app = "src" /\ call = "validate_upload" /\ rpc = "validated"

\* C11: validate_upload rejects an upload exactly when no file is present,
\* the filename is empty, the extension after the last dot is not pdf in any
\* case of the letters, the content is longer than 16 MiB (16 MiB itself is
\* accepted), or the check of the content type failed; every other upload
\* gets (True, []).
C11_RejectsExactly ==
    UploadValidated =>
        /\ ~validation.accepted <=>
            (NoFilePresent \/ EmptyFilename \/ WrongExtension \/ TooLarge
                \/ TypeCheckFailed)
        /\ validation.accepted => validation.errors = << >>
        /\ ~validation.accepted => Len(validation.errors) >= 1

\* a file of exactly 16 MiB named with a capital P is accepted
C11_Witness ==
    /\ UploadValidated
    /\ file.filename = "cv.v2.Pdf"
    /\ file.content.n = 16777216
    /\ validation = Validation(TRUE, << >>)

\* C12: an upload with a valid extension whose content is both longer than
\* 16 MiB and of a wrong type gets both errors in the list; only the
\* failures of the file, the filename and the extension end the validation
\* with a single error.
C12_SizeAndTypeBothReported ==
    UploadValidated =>
        /\ (~NoFilePresent /\ ~EmptyFilename /\ ~WrongExtension /\ TooLarge
                /\ TypeCheckFailed) =>
            /\ \E i \in 1..Len(validation.errors) :
                   validation.errors[i] = "File size exceeds 16MB limit"
            /\ \E i \in 1..Len(validation.errors) :
                   validation.errors[i] = "Invalid PDF file format"
        /\ (NoFilePresent \/ EmptyFilename \/ WrongExtension) =>
            Len(validation.errors) = 1

---------------------------------------------------------------------------
(* Properties of the routes and of extract_text_from_pdf.                  *)

\* C13: in the flows of /analyze-resume and /extract-text, an uploaded
\* content that does not begin with the header "%PDF-" is rejected by the
\* validation, and no extraction of text is ever attempted on it.
C13_NonPdfNeverExtracted ==
    (IsRoute /\ file.present /\ ~BytesStartWith(file.content, "%PDF-")) =>
        /\ readers = 0
        /\ rpc \notin {"received", "validate"} => ~validation.accepted

\* extract_text_from_pdf was called by itself and has made its reader
ReaderMade == call = "extract_text_from_pdf" /\ pdf_reader.kind = "document"

\* C14: extract_text_from_pdf fails with the Encrypted error whenever the
\* encryption flag of the document is set, and with the Empty error whenever
\* a document that is not encrypted has no page; in both cases
\* page.extract_text is never called.
C14_EncryptedAndEmptyFail ==
    /\ (ReaderMade /\ pdf_reader.is_encrypted) =>
        /\ rpc = "extracted"
        /\ extraction = Extraction(FALSE, EncryptedError)
        /\ extract_calls = 0
    /\ (ReaderMade /\ ~pdf_reader.is_encrypted /\ Len(pdf_reader.pages) = 0) =>
        /\ rpc = "extracted"
        /\ extraction = Extraction(FALSE, EmptyPdfError)
        /\ extract_calls = 0

\* an encrypted document of two pages: refused, no page read
C14_Witness ==
    /\ ReaderMade
    /\ pdf_reader.is_encrypted
    /\ Len(pdf_reader.pages) = 2
    /\ extraction.result =
        "Cannot process encrypted PDF files. Please upload an unencrypted version."
    /\ extract_calls = 0

\* the loop over the pages has ended: text is the text extracted
TextExtracted ==
    /\ call = "extract_text_from_pdf"
    /\ rpc = "extracted"
    /\ pdf_reader.kind = "document"
    /\ ~pdf_reader.is_encrypted
    /\ Len(pdf_reader.pages) > 0

\* the number of distinct keywords of the vocabulary in the text extracted
KeywordCount == Cardinality(KeywordsIn(StrLower(text)))

\* C15 as stated: every extracted text with fewer than 3 distinct keywords
\* of the vocabulary makes the extraction fail with NotAResume, whatever
\* its length.
C15_FewKeywordsNotAResume ==
    (TextExtracted /\ KeywordCount < 3) =>
        extraction = Extraction(FALSE, NotAResumeError)

\* C15 as the code has it: an extracted text with fewer than 3 distinct
\* keywords makes the extraction fail with NotAResume whatever its length
\* when it holds a character that is not whitespace; a text that is empty or
\* whitespace only fails before, with NotExtractable.
C15_FewKeywordsNotAResumeUnlessBlank ==
    (TextExtracted /\ KeywordCount < 3) =>
        extraction = Extraction(FALSE,
                                IF StrStrip(text) = ""
                                THEN NotExtractableError
                                ELSE NotAResumeError)

\* a text of more than 100 characters with two keywords is no resume
C15_Witness ==
    /\ TextExtracted
    /\ KeywordCount = 2
    /\ Len(StrStrip(text)) > 100
    /\ extraction.result =
        "This doesn't appear to be a resume. Please upload a valid resume document."

\* C16: whenever extract_text_from_pdf returns success, the text it returns
\* is not empty and not whitespace only, although the check of the content
\* ran on the text before the blank lines and the artifacts were removed.
C16_SuccessTextNotBlank ==
    (call = "extract_text_from_pdf" /\ extraction.success) =>
        /\ extraction.result # ""
        /\ \E i \in 1..Len(extraction.result) :
               CharAt(extraction.result, i) \notin WhiteSpace

\* a success whose text lost blank lines and an artifact in the cleaning
C16_Witness ==
    /\ call = "extract_text_from_pdf"
    /\ extraction.success
    /\ StrContains("\n\n", text)
    /\ StrContains("/gtb", text)
    /\ ~StrContains("\n\n", extraction.result)
    /\ ~StrContains("/gtb", extraction.result)
    /\ Len(extraction.result) < Len(text)


---------------------------------------------------------------------------
(* Properties of compile_to_pdf and validate_latex.                        *)

CompileReturned == lpc = "done" /\ compiled.of = "compile_to_pdf"

NothingDone == runs = 0 /\ file_io = 0 /\ temp_dir = 0 /\ temp_dirs = {}

\* C17: compile_to_pdf runs the compiler, makes a working directory and
\* opens files only when the probe found the compiler and validate_latex found
\* no violation; otherwise it does none of these and returns a failure whose
\* message is the compiler-unavailable message, or lists every validation
\* error, the one for unbalanced braces giving the two brace counts.
C17_CompilesOnlyWhenAvailableAndValid ==
    /\ (runs > 0 \/ file_io > 0 \/ temp_dir # 0)
           => latex_available /\ LatexErrors(latex_code) = << >>
    /\ (CompileReturned /\ ~latex_available)
           => /\ NothingDone
              /\ ~compiled.success
              /\ compiled.value = CompilerUnavailableError
    /\ (CompileReturned /\ latex_available /\ LatexErrors(latex_code) # << >>)
           => /\ NothingDone
              /\ ~compiled.success
              /\ StrStartsWith(compiled.value, "LaTeX validation failed: ")
              /\ \A i \in 1..Len(LatexErrors(latex_code)) :
                     StrContains(LatexErrors(latex_code)[i], compiled.value)
              /\ StrCount(latex_code, "{") # StrCount(latex_code, "}")
                     => StrContains("Unbalanced braces: "
                                        \o ToString(StrCount(latex_code, "{"))
                                        \o " opening, "
                                        \o ToString(StrCount(latex_code, "}"))
                                        \o " closing",
                                    compiled.value)

\* a compilation refused for its braces, with the counts in the message
C17_Witness ==
    /\ CompileReturned
    /\ latex_available
    /\ latex_code = OpenBraceSource
    /\ NothingDone
    /\ compiled.value
           = "LaTeX validation failed: Unbalanced braces: 4 opening, 3 closing"

\* the names of the environments of a source
EnvSet(code) ==
    {EnvNames("begin", code)[i] : i \in 1..Len(EnvNames("begin", code))}
        \cup {EnvNames("end", code)[i] : i \in 1..Len(EnvNames("end", code))}

\* every name is opened as many times as it is closed
EnvMultisetsEqual(code) ==
    \A env \in EnvSet(code) :
        CountOf(EnvNames("begin", code), env) = CountOf(EnvNames("end", code), env)

\* C18: validate_latex accepts a source only if the \begin{...} names and
\* the \end{...} names are the same multiset.
C18_AcceptsOnlyBalancedEnvs ==
    (lpc = "done" /\ compiled.of = "validate_latex" /\ compiled.success)
        => EnvMultisetsEqual(latex_code)

---------------------------------------------------------------------------
(* Properties of the routes.                                               *)

\* C20: /analyze-resume answers an analysis that was refused for a
\* too short resume text with 400, and one that failed in the external model
\* with 500.
C20_StatusByCauseOfFailure ==
    (call = "/analyze-resume" /\ rpc = "responded" /\ pc = "done")
        => /\ result = PyStr(TooShortError) => status = 400
           /\ (calls >= 1 /\ Failed) => status = 500


---------------------------------------------------------------------------
(* Properties of the loop over the pages.                                  *)

\* the texts of the pages that gave one, each followed by a line feed, in
\* the order of the pages
RECURSIVE TextOfPages(_)
TextOfPages(pages) ==
    IF pages = << >> THEN ""
    ELSE (IF Head(pages).kind = "text" /\ Head(pages).text # ""
          THEN Head(pages).text \o "\n"
          ELSE "")
         \o TextOfPages(Tail(pages))

\* C25: a page whose extraction raises is skipped: for a document with at
\* least one page every page is tried, the text is that of the pages that
\* gave one, in page order, and the NotExtractable failure is returned
\* exactly when that text is empty after trimming.
C25_FailedPagesAreSkipped ==
    TextExtracted =>
        /\ extract_calls = Len(pdf_reader.pages)
        /\ text = TextOfPages(pdf_reader.pages)
        /\ extraction = Extraction(FALSE, NotExtractableError)
               <=> StrStrip(TextOfPages(pdf_reader.pages)) = ""

\* a document whose first page raises and whose second page is a resume
C25_Witness ==
    /\ TextExtracted
    /\ Len(pdf_reader.pages) = 2
    /\ pdf_reader.pages[1].kind = "raise"
    /\ pdf_reader.pages[2].kind = "text"
    /\ text = ResumePage \o "\n"
    /\ extraction.success


---------------------------------------------------------------------------
(* Properties of the runs of the compiler.                                 *)

\* the compilation got past the write of the source and ran the compiler
CompilerRan == CompileReturned /\ Len(run_results) > 0

\* C26: with the compiler available and a valid source, compile_to_pdf
\* runs the compiler twice, one run after the other, before it looks for the
\* output; a run that exceeds its timeout ends the call with the Timeout
\* failure, and no run follows it.
C26_TwoRunsUnlessTimeout ==
    /\ runs = Len(run_results)
    /\ runs <= 2
    /\ (lpc = "read" \/ workdir # "") =>
           /\ runs = 2
           /\ \A i \in 1..2 : run_results[i] \in {"exit 0", "exit 1"}
    /\ \A i \in 1..Len(run_results) :
           run_results[i] = "timeout" =>
               /\ i = Len(run_results)
               /\ lpc = "done"
               /\ compiled = Compiled(FALSE, "LaTeX compilation timed out")
               /\ workdir = ""

\* the first run timed out: one run made, the Timeout failure returned
C26_Witness ==
    /\ CompileReturned
    /\ latex_available
    /\ run_results = << "timeout" >>
    /\ runs = 1
    /\ compiled.value = CompilationTimedOutError

\* C27: compile_to_pdf decides by the existence of resume.pdf after the
\* two runs and by nothing else: whatever the return codes of the runs, a
\* PDF that is there and read is returned as a success, and without a PDF the
\* call fails with the first line of resume.log that starts with "!", or
\* with "Compilation failed" when there is no such line or no log.
C27_SuccessByPdfAlone ==
    (CompileReturned /\ workdir # "") =>
        /\ workdir = "pdf" => compiled = Compiled(TRUE, PdfContent)
        /\ workdir = "log with error" =>
               /\ compiled = Compiled(FALSE, LogError)
               /\ StrStartsWith(compiled.value, "!")
        /\ workdir \in {"no log", "log without error"} =>
               compiled = Compiled(FALSE, "Compilation failed")
        /\ compiled.success => workdir = "pdf"

\* both runs returned a code other than 0 and left a PDF: a success
C27_Witness ==
    /\ CompileReturned
    /\ run_results = << "exit 1", "exit 1" >>
    /\ workdir = "pdf"
    /\ compiled = Compiled(TRUE, PdfContent)


---------------------------------------------------------------------------
(* Properties of the failures of analyze_resume.                           *)

\* analyze_resume returned without a reply of the model: no call was made
\* (too short a text, or a loop of no iteration), or the last call failed
AnalysisFailed ==
    /\ entry = "analyze_resume"
    /\ pc = "done"
    /\ calls = 0 \/ Failed

\* C28: every failure of analyze_resume (too short a text, a classified
\* error, the attempts exhausted, a loop of no iteration) returns a string
\* that starts with "Error:", which /analyze-resume answers with 500 and
\* success false: no failed analysis is answered as a success.
C28_FailuresStartWithError ==
    /\ AnalysisFailed =>
           /\ result.type = "str"
           /\ StrStartsWith(result.value, "Error:")
           /\ AnalysisStatus(result.value) = 500
    /\ (AnalysisFailed /\ call = "/analyze-resume" /\ rpc = "responded") =>
           status = 500

\* a request whose only external call failed with a message of no known
\* class: the message is returned behind "Error: " and answered with 500
C28_Witness ==
    /\ AnalysisFailed
    /\ call = "/analyze-resume"
    /\ rpc = "responded"
    /\ calls = 1
    /\ result = PyStr("Error: Connection reset")
    /\ status = 500

\* the reply of the latest external call was empty: no response, or no text
EmptyReply ==
    response.kind = "none" \/ (response.kind = "text" /\ response.text = "")

\* C29: an empty reply of the external model is a failed attempt that is
\* never retried: analyze_resume has returned an error right after that call,
\* with no wait after it and no further call, also when attempts remain.
C29_EmptyReplyNeverRetried ==
    (entry = "analyze_resume" /\ EmptyReply) =>
        /\ pc = "done"
        /\ calls = attempt + 1
        /\ Len(sleeps) = calls - 1
        /\ result = PyStr(IF attempt >= max_retries - 1
                          THEN ExhaustedError(max_retries)
                          ELSE "Error: Empty response from AI model")

\* no response to the first of three attempts: one call, no wait
C29_Witness ==
    /\ entry = "analyze_resume"
    /\ response.kind = "none"
    /\ pc = "done"
    /\ max_retries = 3
    /\ attempt = 0
    /\ calls = 1
    /\ sleeps = << >>
    /\ result = PyStr("Error: Empty response from AI model")


---------------------------------------------------------------------------
(* Properties of the stream of the upload and of the order of the stages.  *)

ShortCircuitErrors ==
    {<<"No file provided">>, <<"No file selected">>,
     <<"Please upload a PDF file only">>}

\* C24: validate_upload and extract_text_from_pdf leave the stream at
\* position 0, so every read, of the validation and of the extraction
\* after it, returns the whole content; a validation that ends on the file,
\* the filename or the extension does not read the stream.
C24_StreamRewound ==
    /\ cursor = 0
    /\ \A i \in 1..Len(read_sizes) : read_sizes[i] = file.content.n
    /\ validation.errors \in ShortCircuitErrors => read_sizes = << >>
    /\ (validation.errors \notin ShortCircuitErrors /\ validation # NoValidation)
           => Len(read_sizes) = 1 + readers

\* a request whose file was read whole by the validation and by the
\* extraction after it
C24_Witness ==
    /\ call = "/analyze-resume"
    /\ validation.accepted
    /\ extraction.success
    /\ file.content.n = 2048
    /\ read_sizes = <<2048, 2048>>
    /\ cursor = 0


\* the stages of a request to /analyze-resume that have run
UploadChecked == validation # NoValidation
Extracted == readers > 0
Prompted == prompt # NoPrompt
Called == calls > 0
Normalized ==
    pc = "done" /\ response.kind = "text" /\ response.text # ""

\* C22: a request to /analyze-resume runs its stages in the order
\* validation, extraction, prompt, retry loop, post-processing: a stage has
\* run only if every stage before it has run and accepted, so the external
\* model is called only after validate_upload accepted the file and
\* extract_text_from_pdf returned success, and a rejection ends the request
\* with no later stage run.
C22_StagesInOrder ==
    call = "/analyze-resume" =>
        /\ Extracted => (UploadChecked /\ validation.accepted)
        /\ pc # "idle" => (Extracted /\ extraction.success)
        /\ Prompted => (pc # "idle" /\ ~InputTooShort(args.resume_text))
        /\ Called => Prompted
        /\ Normalized => Called
        /\ rpc = "responded" =>
               /\ status # 0
               /\ status = 200 => Normalized
        /\ (UploadChecked /\ ~validation.accepted) => rpc \in {"validated", "responded"}
        /\ (extraction # NoExtraction /\ ~extraction.success)
               => rpc \in {"extracted", "responded"}

\* a request answered with the analysis after two external calls
C22_Witness ==
    /\ call = "/analyze-resume"
    /\ rpc = "responded"
    /\ status = 200
    /\ validation.accepted
    /\ extraction.success
    /\ prompt.template = "job_matching"
    /\ calls = 2
    /\ Normalized


---------------------------------------------------------------------------
(* Properties of the request boundary.                                     *)

\* C21: an exception raised while a request is handled is answered by
\* the route with status 500 and a JSON body of fixed texts, in which the text
\* of the exception does not occur, on the analysis, extraction and LaTeX
\* routes alike (DEBUG not set).
C21_GenericInternalError ==
    (rpc = "responded" /\ exception # "") =>
        /\ status = 500
        /\ response_body # {}
        /\ \A member \in response_body : ~StrContains(exception, member.value)


---------------------------------------------------------------------------
(* Properties of concurrent requests.                                      *)

\* the max_retries of a frame: the argument, or the configured default
FrameRetries(t) ==
    IF t.args.max_retries = {} THEN MAX_RETRIES
    ELSE CHOOSE n \in t.args.max_retries : TRUE

\* what analyze_resume returns when it runs alone and its external calls
\* have the outcomes given, from the attempt att on; None while a call or a
\* wait is pending
RECURSIVE AloneFrom(_, _, _)
AloneFrom(outcomes, att, maxr) ==
    IF att >= maxr THEN PyStr(FallThroughError)
    ELSE IF outcomes = << >> THEN None
    ELSE LET o == Head(outcomes)
             msg == IF o.kind = "raise" THEN o.text ELSE EmptyResponseException
         IN IF o.kind = "text" /\ o.text # ""
            THEN PyStr(_post_process_response(o.text))
            ELSE IF att < maxr - 1
                    /\ \E keyword \in retry_keywords :
                           StrContains(keyword, StrLower(msg))
            THEN AloneFrom(Tail(outcomes), att + 1, maxr)
            ELSE PyStr(_handle_error(msg, att, maxr))

Alone(t) ==
    IF InputTooShort(t.args.resume_text) THEN PyStr(TooShortError)
    ELSE AloneFrom(t.outcomes, 0, FrameRetries(t))

\* C23: requests analysed together through the shared analyzer keep their
\* retry state to themselves: under every interleaving each request makes at
\* most its own max_retries external calls, its prompt is built from its own
\* truncated texts, and what it returns is what it would return alone with the
\* outcomes of its own calls.
C23_RetryStatePrivate ==
    \A r \in DOMAIN threads :
        LET t == threads[r] IN
        /\ Len(t.outcomes) <= FrameRetries(t)
        /\ t.pc \in {"attempting", "backoff"} =>
               /\ t.max_retries = FrameRetries(t)
               /\ t.attempt = Len(t.outcomes) - (IF t.pc = "backoff" THEN 1 ELSE 0)
               /\ t.prompt = _create_prompt(
                                 PySlice(t.args.resume_text, RESUME_TEXT_LIMIT),
                                 t.args.job_description)
        /\ t.pc = "done" => t.result = Alone(t)

\* one request made three calls and failed, the other, allowed one call,
\* made its call in between and succeeded
C23_Witness ==
    /\ DOMAIN threads = Requests
    /\ threads[1].pc = "done"
    /\ Len(threads[1].outcomes) = 3
    /\ threads[1].result = PyStr(HighDemandError)
    /\ threads[2].pc = "done"
    /\ threads[2].args.max_retries = {1}
    /\ Len(threads[2].outcomes) = 1
    /\ threads[2].result.value = DefaultScoreHeader \o "Solid resume overall."

\* the source validated is the one generated from the resume
GeneratedValidated ==
    /\ lpc = "done"
    /\ compiled.of = "validate_latex"
    /\ latex_code = generate_latex_from_data(resume, template_name)

\* C30: for every ResumeData and each of the three templates, validate_latex
\* accepts the source generate_latex_from_data produced, also when the fields
\* hold braces or backslashes that escape_latex rewrites.
C30_GeneratedSourceAccepted ==
    GeneratedValidated => compiled.success

====
